---- MODULE Spec2Model ----
(***************************************************************************)
(* Model of the distributed-cache routing layer:                           *)
(*   - the consistent-hashing ring (internal/domain/hash/consistent.go),   *)
(*   - the cache routing service   (internal/app/cache, Service),          *)
(*   - the backend clients, as the in-memory repository the service's own  *)
(*     tests bind to each node (mockCacheRepository).                      *)
(***************************************************************************)
EXTENDS Integers, Sequences, FiniteSets, TLC

---------------------------------------------------------------------------
(* Bounds of the model *)

\* The number of ring positions per node.  The source sets 150; the ring's
\* code is uniform in the count, and the model runs it with a small one.
virtualNodes == 2

\* Ring positions are 0 .. HashSpace-1 (the source: the uint32 range).
HashSpace == 4

\* Longest node list given to NewService.
MaxNodes == 2

\* Service operations invoked in one behaviour.
MaxOps == 3

\* URLs in the configuration of a redis pool.
MaxURLs == 2

---------------------------------------------------------------------------
(* Input domains *)

NodeNames == {"node1", "node2", "node3"}

\* Names the routing service is configured with (node list, client registry).
ServiceNames == {"node1", "node2"}

\* Every string AddNode is given in the model: the ring takes any string as a
\* node name, the empty one included.
AllNames == NodeNames \cup {"", "node10"}

\* The names Nodes() is asked to sort: "node10" comes before "node2".
SortNames == {"node1", "node10", "node2"}

Positions == 0 .. (HashSpace - 1)

\* One lookup key per ring position, and the empty key.
KeyOf(p) == "key" \o ToString(p)

Keys == {KeyOf(p) : p \in Positions}

Values == {"v1", "v2"}

\* node + ":" + strconv.Itoa(i)
VirtualKey(node, i) == node \o ":" \o ToString(i)

VirtualKeys(names) == {VirtualKey(n, i) : n \in names, i \in 0 .. (virtualNodes - 1)}

\* Keys and values handed to the service; "" is the empty string.
ServiceKeys == {KeyOf(0), KeyOf(HashSpace - 1)}

VARIABLES
    hashOf,      \* the digest: string -> position, fixed for a behaviour
    ring,        \* a ConsistentHashRing: nodes, sortedHashes, nodeSet
    ring2,       \* a second ring, populated independently of the first
    service,     \* the Service: hashRing, clients (isNil before NewService)
    mock,        \* the backend bound to each name: data and call counters
    last,        \* the last call on the service and what it returned
    opCount,     \* number of calls made on the service so far
    served,      \* per key, the clients that received a call for it since
                 \* the ring's membership last changed
    expect,      \* per key, the value of its last successful Set not
                 \* followed by a successful Delete (<<>> if none)
    writer,      \* the AddNode or RemoveNode call in progress on ring, when
                 \* the call is taken statement by statement: op, node,
                 \* replica index i of its loop
    http,        \* the HTTP request a handler served and its response
    pool,        \* the redis Pool: clients, current, closed, and the read
                 \* locks held on mu (isNil before NewPool)
    conns,       \* per redis client: whether NewClient created it, how often
                 \* Close was called on it, the data of its server and the
                 \* commands sent to it
    calls,       \* per goroutine, its call on the pool or on a client: the
                 \* operation, its position in it, its locals and its result
    config       \* the Config: Redis (URLs, PoolSize, Timeout, MaxRetries)
                 \* and Server (Port, Timeout); durations in seconds

---------------------------------------------------------------------------
(* internal/domain/hash/consistent.go *)

\* hashKey: the first four bytes of SHA-256(key) as a big-endian uint32.
\* The digest is an arbitrary total function, chosen by Init.
hashKey(key) == hashOf[key]

NewConsistentHashRing ==
    [nodes |-> <<>>, sortedHashes |-> <<>>, nodeSet |-> {}]

\* The map write nodes[hash] = node.
MapPut(m, k, v) == [x \in (DOMAIN m) \cup {k} |-> IF x = k THEN v ELSE m[x]]

\* delete(nodes, hash)
MapDelete(m, k) == [x \in (DOMAIN m) \ {k} |-> m[x]]

\* The map read nodes[hash]: the zero value "" for a missing key.
MapGet(m, k) == IF k \in DOMAIN m THEN m[k] ELSE ""

\* sort.Slice(sortedHashes, less on the values)
SortHashes(s) == SortSeq(s, LAMBDA a, b : a < b)

\* sort.Search(n, f): binary search for the smallest index in [0, n) at
\* which f holds, n if none (0-based; sortedHashes[i] is s[i + 1]).
\* The search with the test sortedHashes[i] > hash: a position equal to the
\* hash is passed over.
RECURSIVE SearchAbove(_, _, _, _)
SearchAbove(s, hash, i, j) ==
    IF i < j
    THEN LET h == (i + j) \div 2
         IN  IF ~(s[h + 1] > hash)
             THEN SearchAbove(s, hash, h + 1, j)
             ELSE SearchAbove(s, hash, i, h)
    ELSE i

RECURSIVE SearchFrom(_, _, _, _)
SearchFrom(s, hash, i, j) ==
    IF i < j
    THEN LET h == (i + j) \div 2
         IN  IF ~(s[h + 1] >= hash)
             THEN SearchFrom(s, hash, h + 1, j)
             ELSE SearchFrom(s, hash, i, h)
    ELSE i

GetNode(r, key) ==
    IF Len(r.sortedHashes) = 0
    THEN ""
    ELSE LET hash == hashKey(key)
             found == SearchFrom(r.sortedHashes, hash, 0, Len(r.sortedHashes))
             idx == IF found = Len(r.sortedHashes) THEN 0 ELSE found
         IN  MapGet(r.nodes, r.sortedHashes[idx + 1])

\* The loop of AddNode over the replica indices i .. virtualNodes-1.
RECURSIVE AddReplicas(_, _, _)
AddReplicas(r, node, i) ==
    IF i >= virtualNodes
    THEN r
    ELSE LET hash == hashKey(VirtualKey(node, i))
         IN  AddReplicas([r EXCEPT !.nodes = MapPut(@, hash, node),
                                   !.sortedHashes = Append(@, hash)],
                         node, i + 1)

\* AddNode without its check of nodeSet: a known node is inserted again.
AddNodeAgain(r, node) ==
    LET added == AddReplicas([r EXCEPT !.nodeSet = @ \cup {node}], node, 0)
    IN  [added EXCEPT !.sortedHashes = SortHashes(@)]

AddNode(r, node) ==
    IF node \in r.nodeSet
    THEN r
    ELSE LET added == AddReplicas([r EXCEPT !.nodeSet = @ \cup {node}], node, 0)
         IN  [added EXCEPT !.sortedHashes = SortHashes(@)]

\* The loop of RemoveNode over the replica indices i .. virtualNodes-1.
RECURSIVE DeleteReplicas(_, _, _)
DeleteReplicas(m, node, i) ==
    IF i >= virtualNodes
    THEN m
    ELSE DeleteReplicas(MapDelete(m, hashKey(VirtualKey(node, i))), node, i + 1)

\* Some enumeration of a set (the iteration order of a Go map is not fixed;
\* the callers sort the result).
RECURSIVE SetToSeq(_)
SetToSeq(S) ==
    IF S = {} THEN <<>>
    ELSE LET x == CHOOSE y \in S : TRUE IN <<x>> \o SetToSeq(S \ {x})

rebuildSortedHashes(r) ==
    [r EXCEPT !.sortedHashes = SortHashes(SetToSeq(DOMAIN r.nodes))]

\* RemoveNode that forgets the node and keeps its positions.
RemoveNodeFromSetOnly(r, node) ==
    [r EXCEPT !.nodeSet = @ \ {node}]

RemoveNode(r, node) ==
    IF node \notin r.nodeSet
    THEN r
    ELSE rebuildSortedHashes(
             [r EXCEPT !.nodeSet = @ \ {node},
                       !.nodes = DeleteReplicas(@, node, 0)])

\* A string as Go compares it: its bytes.
Bytes(s) ==
    CASE s = "" -> <<>>
      [] s = "node1" -> <<110, 111, 100, 101, 49>>
      [] s = "node2" -> <<110, 111, 100, 101, 50>>
      [] s = "node3" -> <<110, 111, 100, 101, 51>>
      [] s = "node10" -> <<110, 111, 100, 101, 49, 48>>

\* a < b on Go strings: the first differing byte decides, a proper prefix
\* comes first.
RECURSIVE BytesLess(_, _)
BytesLess(a, b) ==
    IF b = <<>> THEN FALSE
    ELSE IF a = <<>> THEN TRUE
    ELSE IF Head(a) # Head(b) THEN Head(a) < Head(b)
    ELSE BytesLess(Tail(a), Tail(b))

\* Nodes without its sort.Strings: the names as the map yields them.
NodesUnsorted(r, order) == order

\* order: nodeSet in the order the range loop visits it; the loop appends
\* the names in that order, sort.Strings sorts them.
Nodes(r, order) == SortSeq(order, LAMBDA a, b : BytesLess(Bytes(a), Bytes(b)))

---------------------------------------------------------------------------
(* internal/domain/errors/cache.go                                         *)
(* An error is its chain of messages, outermost first; nil is the empty    *)
(* chain.  A wrapped error (fmt.Errorf with %w) puts its message in front. *)

Nil == <<>>

ErrKeyNotFound == <<"key not found">>

ErrInvalidKey == <<"invalid key">>

ErrInvalidValue == <<"invalid value">>

ErrInvalidConfiguration == <<"invalid configuration">>

ErrNoNodesAvailable == <<"no nodes available">>

ErrClientNotFound == <<"client not found for node">>

\* fmt.Errorf(msg + ": %w", err)
Wrap(msg, err) == <<msg>> \o err

---------------------------------------------------------------------------
(* internal/app/cache/service_test.go: mockCacheRepository, the backend    *)
(* bound to a node.  Its fields getErr, setErr, deleteErr and healthErr    *)
(* are set by the caller before a call; the model passes them in.          *)

newMockCacheRepository ==
    [data |-> <<>>, getCalls |-> 0, setCalls |-> 0,
     deleteCalls |-> 0, healthCalls |-> 0]

\* The errors a backend is made to return (cancellation, an opaque failure).
BackendErrors == {<<"context deadline exceeded">>, <<"client error">>}

\* The error given to the health probe of client c when it is unhealthy.
HealthError(c) == <<c \o " error">>

MockGet(m, key, getErr) ==
    LET counted == [m EXCEPT !.getCalls = @ + 1]
    IN  IF getErr # Nil
        THEN [value |-> "", err |-> getErr, mock |-> counted]
        ELSE IF key \notin DOMAIN m.data
        THEN [value |-> "", err |-> ErrKeyNotFound, mock |-> counted]
        ELSE [value |-> m.data[key], err |-> Nil, mock |-> counted]

MockSet(m, key, value, setErr) ==
    LET counted == [m EXCEPT !.setCalls = @ + 1]
    IN  IF setErr # Nil
        THEN [err |-> setErr, mock |-> counted]
        ELSE [err |-> Nil,
              mock |-> [counted EXCEPT !.data = MapPut(@, key, value)]]

\* A backend whose Delete reports a key it does not hold.
MockDeleteHeldOnly(m, key, deleteErr) ==
    LET counted == [m EXCEPT !.deleteCalls = @ + 1]
    IN  IF deleteErr # Nil
        THEN [err |-> deleteErr, mock |-> counted]
        ELSE IF key \notin DOMAIN m.data
        THEN [err |-> ErrKeyNotFound, mock |-> counted]
        ELSE [err |-> Nil,
              mock |-> [counted EXCEPT !.data = MapDelete(@, key)]]

MockDelete(m, key, deleteErr) ==
    LET counted == [m EXCEPT !.deleteCalls = @ + 1]
    IN  IF deleteErr # Nil
        THEN [err |-> deleteErr, mock |-> counted]
        ELSE [err |-> Nil,
              mock |-> [counted EXCEPT !.data = MapDelete(@, key)]]

MockHealthCheck(m, healthErr) ==
    [err |-> healthErr, mock |-> [m EXCEPT !.healthCalls = @ + 1]]

---------------------------------------------------------------------------
(* internal/app/cache: Service (src/unnamed/part_001) *)

\* The nil *Service.
NilService == [isNil |-> TRUE, hashRing |-> NewConsistentHashRing, clients |-> {}]

\* The loop of NewService: hashRing.AddNode for each node of cfg.Nodes.
RECURSIVE AddNodes(_, _, _)
AddNodes(r, nodeList, i) ==
    IF i > Len(nodeList)
    THEN r
    ELSE AddNodes(AddNode(r, nodeList[i]), nodeList, i + 1)

\* NewService without the check of the registry.
NewServiceUnchecked(cfg) ==
    IF Len(cfg.Nodes) = 0
    THEN [service |-> NilService, err |-> ErrInvalidConfiguration]
    ELSE [service |-> [isNil |-> FALSE,
                       hashRing |-> AddNodes(NewConsistentHashRing, cfg.Nodes, 1),
                       clients |-> cfg.Clients],
          err |-> Nil]

\* cfg: Nodes, a list of names; Clients, the names that have a client.
NewService(cfg) ==
    IF Len(cfg.Nodes) = 0
    THEN [service |-> NilService, err |-> ErrInvalidConfiguration]
    ELSE IF Cardinality(cfg.Clients) = 0
    THEN [service |-> NilService, err |-> ErrInvalidConfiguration]
    ELSE [service |-> [isNil |-> FALSE,
                       hashRing |-> AddNodes(NewConsistentHashRing, cfg.Nodes, 1),
                       clients |-> cfg.Clients],
          err |-> Nil]

\* The outcome of a call that a check rejects before any dispatch.
Rejected(err, m) == [value |-> "", err |-> err, mock |-> m, to |-> ""]

\* The outcome of a call dispatched to node, whose backend gave r.
Dispatched(r, m, node) ==
    [value |-> IF r.err # Nil THEN "" ELSE r.value, err |-> r.err,
     mock |-> [m EXCEPT ![node] = r.mock], to |-> node]

\* Get that dispatches to some client of the registry, not to the owner.
ServiceGetAnyClient(s, m, key, getErr) ==
    IF key = "" THEN Rejected(ErrInvalidKey, m)
    ELSE IF GetNode(s.hashRing, key) = "" THEN Rejected(ErrNoNodesAvailable, m)
    ELSE IF GetNode(s.hashRing, key) \notin s.clients
    THEN Rejected(ErrClientNotFound, m)
    ELSE LET node == CHOOSE c \in s.clients : c # GetNode(s.hashRing, key)
                                              \/ s.clients = {c}
         IN  Dispatched(MockGet(m[node], key, getErr), m, node)

\* Get that reports every backend failure as a missing key.
ServiceGetMasked(s, m, key, getErr) ==
    IF key = "" THEN Rejected(ErrInvalidKey, m)
    ELSE IF GetNode(s.hashRing, key) = "" THEN Rejected(ErrNoNodesAvailable, m)
    ELSE IF GetNode(s.hashRing, key) \notin s.clients
    THEN Rejected(ErrClientNotFound, m)
    ELSE LET node == GetNode(s.hashRing, key)
             r == MockGet(m[node], key, getErr)
         IN  Dispatched([r EXCEPT !.err = IF @ # Nil THEN ErrKeyNotFound ELSE Nil],
                        m, node)

\* Each operation gives: value and err, what the call returns; mock, the
\* backends after the call; to, the client the call was dispatched to ("" if
\* none).
ServiceGet(s, m, key, getErr) ==
    IF key = ""
    THEN [value |-> "", err |-> ErrInvalidKey, mock |-> m, to |-> ""]
    ELSE LET node == GetNode(s.hashRing, key)
         IN  IF node = ""
             THEN [value |-> "", err |-> ErrNoNodesAvailable, mock |-> m, to |-> ""]
             ELSE IF node \notin s.clients
             THEN [value |-> "", err |-> ErrClientNotFound, mock |-> m, to |-> ""]
             ELSE LET r == MockGet(m[node], key, getErr)
                      after == [m EXCEPT ![node] = r.mock]
                  IN  IF r.err # Nil
                      THEN [value |-> "", err |-> r.err, mock |-> after, to |-> node]
                      ELSE [value |-> r.value, err |-> Nil, mock |-> after, to |-> node]

\* Set that calls the backend a second time when the first call fails.
ServiceSetRetry(s, m, key, value, setErr) ==
    IF key = "" THEN Rejected(ErrInvalidKey, m)
    ELSE IF value = "" THEN Rejected(ErrInvalidValue, m)
    ELSE IF GetNode(s.hashRing, key) = "" THEN Rejected(ErrNoNodesAvailable, m)
    ELSE IF GetNode(s.hashRing, key) \notin s.clients
    THEN Rejected(ErrClientNotFound, m)
    ELSE LET node == GetNode(s.hashRing, key)
             first == MockSet(m[node], key, value, setErr)
             r == IF first.err # Nil
                  THEN MockSet(first.mock, key, value, setErr)
                  ELSE first
         IN  Dispatched([value |-> "", err |-> r.err, mock |-> r.mock], m, node)

\* Set that checks the value before the key.
ServiceSetValueFirst(s, m, key, value, setErr) ==
    IF value = "" THEN Rejected(ErrInvalidValue, m)
    ELSE IF key = "" THEN Rejected(ErrInvalidKey, m)
    ELSE IF GetNode(s.hashRing, key) = "" THEN Rejected(ErrNoNodesAvailable, m)
    ELSE IF GetNode(s.hashRing, key) \notin s.clients
    THEN Rejected(ErrClientNotFound, m)
    ELSE LET node == GetNode(s.hashRing, key)
             r == MockSet(m[node], key, value, setErr)
         IN  Dispatched([value |-> "", err |-> r.err, mock |-> r.mock], m, node)

ServiceSet(s, m, key, value, setErr) ==
    IF key = ""
    THEN [value |-> "", err |-> ErrInvalidKey, mock |-> m, to |-> ""]
    ELSE IF value = ""
    THEN [value |-> "", err |-> ErrInvalidValue, mock |-> m, to |-> ""]
    ELSE LET node == GetNode(s.hashRing, key)
         IN  IF node = ""
             THEN [value |-> "", err |-> ErrNoNodesAvailable, mock |-> m, to |-> ""]
             ELSE IF node \notin s.clients
             THEN [value |-> "", err |-> ErrClientNotFound, mock |-> m, to |-> ""]
             ELSE LET r == MockSet(m[node], key, value, setErr)
                      after == [m EXCEPT ![node] = r.mock]
                  IN  IF r.err # Nil
                      THEN [value |-> "", err |-> r.err, mock |-> after, to |-> node]
                      ELSE [value |-> "", err |-> Nil, mock |-> after, to |-> node]

\* Delete without the check of the empty node name.
ServiceDeleteNoNodeCheck(s, m, key, deleteErr) ==
    IF key = "" THEN Rejected(ErrInvalidKey, m)
    ELSE IF GetNode(s.hashRing, key) \notin s.clients
    THEN Rejected(ErrClientNotFound, m)
    ELSE LET node == GetNode(s.hashRing, key)
             r == MockDelete(m[node], key, deleteErr)
         IN  Dispatched([value |-> "", err |-> r.err, mock |-> r.mock], m, node)

ServiceDelete(s, m, key, deleteErr) ==
    IF key = ""
    THEN [value |-> "", err |-> ErrInvalidKey, mock |-> m, to |-> ""]
    ELSE LET node == GetNode(s.hashRing, key)
         IN  IF node = ""
             THEN [value |-> "", err |-> ErrNoNodesAvailable, mock |-> m, to |-> ""]
             ELSE IF node \notin s.clients
             THEN [value |-> "", err |-> ErrClientNotFound, mock |-> m, to |-> ""]
             ELSE LET r == MockDelete(m[node], key, deleteErr)
                      after == [m EXCEPT ![node] = r.mock]
                  IN  IF r.err # Nil
                      THEN [value |-> "", err |-> r.err, mock |-> after, to |-> node]
                      ELSE [value |-> "", err |-> Nil, mock |-> after, to |-> node]

\* The probe loop that stops at the first unhealthy client.
RECURSIVE ProbeClientsUntilFailure(_, _, _, _)
ProbeClientsUntilFailure(order, healthErr, i, acc) ==
    IF i > Len(order)
    THEN acc
    ELSE LET node == order[i]
             r == MockHealthCheck(acc.mock[node], healthErr[node])
             after == [acc.mock EXCEPT ![node] = r.mock]
         IN  IF r.err # Nil
             THEN [acc EXCEPT !.lastErr = r.err, !.mock = after]
             ELSE ProbeClientsUntilFailure(order, healthErr, i + 1,
                      [acc EXCEPT !.healthyClients = @ + 1, !.mock = after])

\* The loop of HealthCheck over the clients, in the order the map iteration
\* gives them: acc holds lastErr, healthyClients and the backends.
RECURSIVE ProbeClients(_, _, _, _)
ProbeClients(order, healthErr, i, acc) ==
    IF i > Len(order)
    THEN acc
    ELSE LET node == order[i]
             r == MockHealthCheck(acc.mock[node], healthErr[node])
             after == [acc.mock EXCEPT ![node] = r.mock]
         IN  ProbeClients(order, healthErr, i + 1,
                 IF r.err # Nil
                 THEN [acc EXCEPT !.lastErr = r.err, !.mock = after]
                 ELSE [acc EXCEPT !.healthyClients = @ + 1, !.mock = after])

\* HealthCheck that fails as soon as one client is unhealthy.
ServiceHealthCheckStrict(s, m, order, healthErr) ==
    LET done == ProbeClients(order, healthErr, 1,
                    [lastErr |-> Nil, healthyClients |-> 0, mock |-> m])
    IN  IF done.healthyClients < Len(order)
        THEN [err |-> Wrap("all clients unhealthy", done.lastErr), mock |-> done.mock]
        ELSE [err |-> Nil, mock |-> done.mock]

\* HealthCheck that reports the failure without wrapping the last error.
ServiceHealthCheckOpaque(s, m, order, healthErr) ==
    LET done == ProbeClients(order, healthErr, 1,
                    [lastErr |-> Nil, healthyClients |-> 0, mock |-> m])
    IN  IF done.healthyClients = 0
        THEN [err |-> <<"all clients unhealthy">>, mock |-> done.mock]
        ELSE [err |-> Nil, mock |-> done.mock]

\* order: the clients of the registry in the order the range loop visits them.
ServiceHealthCheck(s, m, order, healthErr) ==
    LET done == ProbeClients(order, healthErr, 1,
                    [lastErr |-> Nil, healthyClients |-> 0, mock |-> m])
    IN  IF done.healthyClients = 0
        THEN [err |-> Wrap("all clients unhealthy", done.lastErr), mock |-> done.mock]
        ELSE [err |-> Nil, mock |-> done.mock]

\* The loop of GetNodes over the registry, from the i-th client visited.
RECURSIVE CollectNodes(_, _, _)
CollectNodes(order, i, nodes) ==
    IF i > Len(order)
    THEN nodes
    ELSE CollectNodes(order, i + 1, Append(nodes, order[i]))

\* GetNodes that lists the nodes of the ring.
ServiceGetNodesOfRing(s, order) == SetToSeq(s.hashRing.nodeSet)

\* order: the clients of the registry in the order the range loop visits them.
ServiceGetNodes(s, order) == CollectNodes(order, 1, <<>>)

---------------------------------------------------------------------------
(* internal/transport/http/handlers.go                                     *)
(* A request is its method, its URL path and its body.  A path is the      *)
(* sequence of its separators "/" and of the segments between them.        *)

\* The response a handler has written: status and the fields of its JSON
\* body (ErrorResponse, CacheResponse, HealthResponse), "" where absent.
NoResponse ==
    [status |-> 0, error |-> "", message |-> "", key |-> "", value |-> "",
     health |-> "", nodes |-> <<>>]

writeError(status, error, message) ==
    [NoResponse EXCEPT !.status = status, !.error = error, !.message = message]

\* strings.Trim(path, "/")
RECURSIVE TrimSlashes(_)
TrimSlashes(path) ==
    IF path = <<>> THEN path
    ELSE IF Head(path) = "/" THEN TrimSlashes(Tail(path))
    ELSE IF path[Len(path)] = "/" THEN TrimSlashes(SubSeq(path, 1, Len(path) - 1))
    ELSE path

\* strings.Split(path, "/"): the segments between the separators, "" where
\* two separators meet; the empty path gives one empty segment.
RECURSIVE SplitPath(_, _)
SplitPath(path, part) ==
    IF path = <<>> THEN <<part>>
    ELSE IF Head(path) = "/" THEN <<part>> \o SplitPath(Tail(path), "")
    ELSE SplitPath(Tail(path), part \o Head(path))

\* extractKey that takes the last segment of the path.
extractLastSegment(path) ==
    LET parts == SplitPath(TrimSlashes(path), "")
    IN  IF Len(parts) >= 2 /\ parts[1] = "cache" THEN parts[Len(parts)] ELSE ""

extractKey(path) ==
    LET parts == SplitPath(TrimSlashes(path), "")
    IN  IF Len(parts) >= 2 /\ parts[1] = "cache" THEN parts[2] ELSE ""

\* json.NewDecoder(r.Body).Decode(&req) into struct{ Value string }: the
\* decoder's error text ("" for none) and req.Value.
Decode(body) ==
    CASE body = "{\"value\":\"v1\"}" -> [err |-> "", value |-> "v1"]
      [] body = "{\"value\":\"\"}" -> [err |-> "", value |-> ""]
      [] body = "{}" -> [err |-> "", value |-> ""]
      [] body = "" -> [err |-> "EOF", value |-> ""]
      [] body = "v1" ->
           [err |-> "invalid character 'v' looking for beginning of value",
            value |-> ""]

\* handleServiceError that puts the failure of the backend into the body.
handleServiceErrorVerbose(err) ==
    IF err = ErrKeyNotFound THEN writeError(404, "key not found", "")
    ELSE IF err = ErrInvalidKey THEN writeError(400, "invalid key", "")
    ELSE IF err = ErrInvalidValue THEN writeError(400, "invalid value", "")
    ELSE IF err = ErrNoNodesAvailable THEN writeError(503, "no nodes available", "")
    ELSE IF err = ErrClientNotFound THEN writeError(503, "client not found", "")
    ELSE writeError(500, "internal server error", err[1])

\* switch err: the error value itself is compared with the domain errors.
handleServiceError(err) ==
    IF err = ErrKeyNotFound THEN writeError(404, "key not found", "")
    ELSE IF err = ErrInvalidKey THEN writeError(400, "invalid key", "")
    ELSE IF err = ErrInvalidValue THEN writeError(400, "invalid value", "")
    ELSE IF err = ErrNoNodesAvailable THEN writeError(503, "no nodes available", "")
    ELSE IF err = ErrClientNotFound THEN writeError(503, "client not found", "")
    ELSE writeError(500, "internal server error", "")

\* What a handler did: its response, and the call it made on the service
\* (op "none" and the backends m untouched when it made none).
Answered(resp, op, key, value, r) ==
    [resp |-> resp, op |-> op, key |-> key, value |-> value, r |-> r]

GetCache(s, m, req, getErr) ==
    IF req.method # "GET"
    THEN Answered(writeError(405, "method not allowed", ""), "none", "", "",
                  Rejected(Nil, m))
    ELSE LET key == extractKey(req.path)
         IN  IF key = ""
             THEN Answered(writeError(400, "invalid key", "key cannot be empty"),
                           "none", "", "", Rejected(Nil, m))
             ELSE LET r == ServiceGet(s, m, key, getErr)
                  IN  IF r.err # Nil
                      THEN Answered(handleServiceError(r.err), "Get", key, "", r)
                      ELSE Answered([NoResponse EXCEPT !.status = 200, !.key = key,
                                                       !.value = r.value],
                                    "Get", key, "", r)

SetCache(s, m, req, setErr) ==
    IF req.method # "PUT"
    THEN Answered(writeError(405, "method not allowed", ""), "none", "", "",
                  Rejected(Nil, m))
    ELSE LET key == extractKey(req.path)
             body == Decode(req.body)
         IN  IF key = ""
             THEN Answered(writeError(400, "invalid key", "key cannot be empty"),
                           "none", "", "", Rejected(Nil, m))
             ELSE IF body.err # ""
             THEN Answered(writeError(400, "invalid request body", body.err),
                           "none", "", "", Rejected(Nil, m))
             ELSE IF body.value = ""
             THEN Answered(writeError(400, "invalid value", "value cannot be empty"),
                           "none", "", "", Rejected(Nil, m))
             ELSE LET r == ServiceSet(s, m, key, body.value, setErr)
                  IN  IF r.err # Nil
                      THEN Answered(handleServiceError(r.err), "Set", key,
                                    body.value, r)
                      ELSE Answered([NoResponse EXCEPT !.status = 201, !.key = key,
                                                       !.value = body.value],
                                    "Set", key, body.value, r)

DeleteCache(s, m, req, deleteErr) ==
    IF req.method # "DELETE"
    THEN Answered(writeError(405, "method not allowed", ""), "none", "", "",
                  Rejected(Nil, m))
    ELSE LET key == extractKey(req.path)
         IN  IF key = ""
             THEN Answered(writeError(400, "invalid key", "key cannot be empty"),
                           "none", "", "", Rejected(Nil, m))
             ELSE LET r == ServiceDelete(s, m, key, deleteErr)
                  IN  IF r.err # Nil
                      THEN Answered(handleServiceError(r.err), "Delete", key, "", r)
                      ELSE Answered([NoResponse EXCEPT !.status = 204],
                                    "Delete", key, "", r)

\* The health handler that reports the cluster down when any client is.
HandlersHealthCheckAnyDown(s, m, req, order, healthErr) ==
    IF req.method # "GET"
    THEN Answered(writeError(405, "method not allowed", ""), "none", "", "",
                  Rejected(Nil, m))
    ELSE LET r == ServiceHealthCheck(s, m, order, healthErr)
             down == \E c \in s.clients : healthErr[c] # Nil
         IN  Answered([NoResponse EXCEPT
                           !.status = IF down THEN 503 ELSE 200,
                           !.health = IF down THEN "unhealthy" ELSE "healthy",
                           !.nodes = ServiceGetNodes(s, order)],
                      "HealthCheck", "", "",
                      [value |-> "", err |-> r.err, mock |-> r.mock, to |-> ""])

\* Handlers.HealthCheck.  order: the registry in the order the range loops
\* of Service.HealthCheck and Service.GetNodes visit it.
HandlersHealthCheck(s, m, req, order, healthErr) ==
    IF req.method # "GET"
    THEN Answered(writeError(405, "method not allowed", ""), "none", "", "",
                  Rejected(Nil, m))
    ELSE LET r == ServiceHealthCheck(s, m, order, healthErr)
         IN  Answered([NoResponse EXCEPT
                           !.status = IF r.err # Nil THEN 503 ELSE 200,
                           !.health = IF r.err # Nil THEN "unhealthy" ELSE "healthy",
                           !.nodes = ServiceGetNodes(s, order)],
                      "HealthCheck", "", "",
                      [value |-> "", err |-> r.err, mock |-> r.mock, to |-> ""])

---------------------------------------------------------------------------
(* internal/infra/redis: Client (client.go) and Pool (pool.go) *)

\* The clients NewPool creates, numbered in creation order: client i is the
\* one made for URLs[i-1].
ClientIds == 1 .. MaxURLs

Goroutines == {"g1", "g2"}

NilPool ==
    [isNil |-> TRUE, clients |-> <<>>, current |-> 0, closed |-> FALSE,
     readers |-> 0]

\* A client NewClient has not created: no Close call, an empty server, no
\* command sent.
NoConns ==
    [i \in ClientIds |->
        [created |-> FALSE, closeCalls |-> 0, data |-> <<>>, commands |-> 0]]

\* A goroutine that is in no call: client 0 stands for the nil *Client,
\* failing holds the clients that fail their ping or their Close in the call.
NoPoolCall ==
    [op |-> "none", pc |-> "idle", k |-> 0, idx |-> 0, next |-> 0, client |-> 0,
     err |-> Nil, size |-> 0, probed |-> <<>>, key |-> "", value |-> "",
     result |-> "", fault |-> Nil, failing |-> {}]

NoCalls == [g \in Goroutines |-> NoPoolCall]

ErrCacheUnavailable == <<"cache unavailable">>

\* Client.Get, Set and Delete on the connection c (the data of its server,
\* the commands sent to it), where the command, if one is sent, fails with
\* `fault' (Nil: the server answers).
ClientGet(c, key, fault) ==
    IF key = "" THEN [value |-> "", err |-> ErrInvalidKey, conn |-> c]
    ELSE LET sent == [c EXCEPT !.commands = @ + 1]
         IN  IF fault # Nil
             THEN [value |-> "", err |-> Wrap("redis get failed", fault), conn |-> sent]
             ELSE IF key \notin DOMAIN c.data
             THEN [value |-> "", err |-> ErrKeyNotFound, conn |-> sent]
             ELSE [value |-> c.data[key], err |-> Nil, conn |-> sent]

\* Client.Set that sends an empty value to the server.
ClientSetAnyValue(c, key, value, fault) ==
    IF key = "" THEN [value |-> "", err |-> ErrInvalidKey, conn |-> c]
    ELSE LET sent == [c EXCEPT !.commands = @ + 1]
         IN  IF fault # Nil
             THEN [value |-> "", err |-> Wrap("redis set failed", fault), conn |-> sent]
             ELSE [value |-> "", err |-> Nil,
                   conn |-> [sent EXCEPT !.data = MapPut(@, key, value)]]

ClientSet(c, key, value, fault) ==
    IF key = "" THEN [value |-> "", err |-> ErrInvalidKey, conn |-> c]
    ELSE IF value = "" THEN [value |-> "", err |-> ErrInvalidValue, conn |-> c]
    ELSE LET sent == [c EXCEPT !.commands = @ + 1]
         IN  IF fault # Nil
             THEN [value |-> "", err |-> Wrap("redis set failed", fault), conn |-> sent]
             ELSE [value |-> "", err |-> Nil,
                   conn |-> [sent EXCEPT !.data = MapPut(@, key, value)]]

ClientDelete(c, key, fault) ==
    IF key = "" THEN [value |-> "", err |-> ErrInvalidKey, conn |-> c]
    ELSE LET sent == [c EXCEPT !.commands = @ + 1]
         IN  IF fault # Nil
             THEN [value |-> "", err |-> Wrap("redis delete failed", fault), conn |-> sent]
             ELSE [value |-> "", err |-> Nil,
                   conn |-> [sent EXCEPT !.data = MapDelete(@, key)]]

\* NewPool that returns the error without closing the clients it created.
NewPoolLeaking(urls, failAt, c) ==
    IF urls = 0
    THEN [pool |-> NilPool, err |-> <<"no redis URLs provided">>, conns |-> c]
    ELSE IF failAt \in 1 .. urls
    THEN [pool |-> NilPool,
          err |-> Wrap("failed to create client for url",
                       <<"failed to connect to redis">>),
          conns |-> [i \in ClientIds |->
                        IF i < failAt THEN [c[i] EXCEPT !.created = TRUE] ELSE c[i]]]
    ELSE [pool |-> [isNil |-> FALSE, clients |-> [i \in 1 .. urls |-> i],
                    current |-> 0, closed |-> FALSE, readers |-> 0],
          err |-> Nil,
          conns |-> [i \in ClientIds |->
                        IF i <= urls THEN [c[i] EXCEPT !.created = TRUE] ELSE c[i]]]

\* NewPool for a list of urls URLs, where NewClient fails for URLs[failAt-1]
\* (failAt = 0: for none): the pool, the error and the clients afterwards.
NewPool(urls, failAt, c) ==
    IF urls = 0
    THEN [pool |-> NilPool, err |-> <<"no redis URLs provided">>, conns |-> c]
    ELSE IF failAt \in 1 .. urls
    THEN [pool |-> NilPool,
          err |-> Wrap("failed to create client for url",
                       <<"failed to connect to redis">>),
          conns |-> [i \in ClientIds |->
                        IF i < failAt
                        THEN [c[i] EXCEPT !.created = TRUE, !.closeCalls = @ + 1]
                        ELSE c[i]]]
    ELSE [pool |-> [isNil |-> FALSE, clients |-> [i \in 1 .. urls |-> i],
                    current |-> 0, closed |-> FALSE, readers |-> 0],
          err |-> Nil,
          conns |-> [i \in ClientIds |->
                        IF i <= urls THEN [c[i] EXCEPT !.created = TRUE] ELSE c[i]]]

\* The loop of Pool.HealthCheck from client i on: the clients probed so far
\* and the error of the first that fails.
RECURSIVE ProbePool(_, _, _, _)
ProbePool(clients, unhealthy, i, probed) ==
    IF i > Len(clients)
    THEN [err |-> Nil, probed |-> probed]
    ELSE IF clients[i] \in unhealthy
    THEN [err |-> ErrCacheUnavailable, probed |-> Append(probed, clients[i])]
    ELSE ProbePool(clients, unhealthy, i + 1, Append(probed, clients[i]))

\* Pool.HealthCheck that probes every client and fails only if all fail.
PoolHealthCheckAnyHealthy(p, unhealthy) ==
    IF p.closed
    THEN [err |-> <<"pool is closed">>, probed |-> <<>>]
    ELSE [err |-> IF \A i \in 1 .. Len(p.clients) : p.clients[i] \in unhealthy
                  THEN ErrCacheUnavailable ELSE Nil,
          probed |-> p.clients]

PoolHealthCheck(p, unhealthy) ==
    IF p.closed
    THEN [err |-> <<"pool is closed">>, probed |-> <<>>]
    ELSE ProbePool(p.clients, unhealthy, 1, <<>>)

\* Pool.Close that closes its clients again when the pool is closed already.
PoolCloseAgain(p, c, failing) ==
    LET held == {i \in ClientIds : c[i].created}
    IN  [pool |-> [p EXCEPT !.closed = TRUE, !.clients = <<>>],
         err |-> IF held \cap failing # {}
                 THEN <<"errors closing clients">> ELSE Nil,
         conns |-> [i \in ClientIds |->
                       IF i \in held THEN [c[i] EXCEPT !.closeCalls = @ + 1]
                       ELSE c[i]]]

\* Pool.Close that gives up at the first client that fails to close.
PoolCloseUntilFailure(p, c, failing) ==
    IF p.closed
    THEN [pool |-> p, err |-> Nil, conns |-> c]
    ELSE LET held == {p.clients[i] : i \in 1 .. Len(p.clients)}
             reached == {i \in held : \A j \in held \cap failing : i <= j}
         IN  [pool |-> [p EXCEPT !.closed = TRUE, !.clients = <<>>],
              err |-> IF held \cap failing # {}
                      THEN <<"errors closing clients">> ELSE Nil,
              conns |-> [i \in ClientIds |->
                            IF i \in reached THEN [c[i] EXCEPT !.closeCalls = @ + 1]
                            ELSE c[i]]]

\* Pool.Close, where Close of the clients in `failing' returns an error.
PoolClose(p, c, failing) ==
    IF p.closed
    THEN [pool |-> p, err |-> Nil, conns |-> c]
    ELSE LET held == {p.clients[i] : i \in 1 .. Len(p.clients)}
         IN  [pool |-> [p EXCEPT !.closed = TRUE, !.clients = <<>>],
              err |-> IF held \cap failing # {}
                      THEN <<"errors closing clients">> ELSE Nil,
              conns |-> [i \in ClientIds |->
                            IF i \in held THEN [c[i] EXCEPT !.closeCalls = @ + 1]
                            ELSE c[i]]]

PoolSize(p) == Len(p.clients)

---------------------------------------------------------------------------
(* internal/infra/config (src/unnamed/part_004) *)

Default ==
    [Redis |-> [URLs |-> <<"redis://localhost:6379">>, PoolSize |-> 10,
                Timeout |-> 5, MaxRetries |-> 3],
     Server |-> [Port |-> 8080, Timeout |-> 30]]

\* Validate that checks the port before the redis settings.
ValidatePortFirst(c) ==
    IF c.Server.Port <= 0 \/ c.Server.Port > 65535
    THEN <<"invalid server port: " \o ToString(c.Server.Port)>>
    ELSE IF Len(c.Redis.URLs) = 0
    THEN <<"redis URLs cannot be empty">>
    ELSE IF c.Redis.PoolSize <= 0
    THEN <<"redis pool size must be positive">>
    ELSE Nil

Validate(c) ==
    IF Len(c.Redis.URLs) = 0
    THEN <<"redis URLs cannot be empty">>
    ELSE IF c.Redis.PoolSize <= 0
    THEN <<"redis pool size must be positive">>
    ELSE IF c.Server.Port <= 0 \/ c.Server.Port > 65535
    THEN <<"invalid server port: " \o ToString(c.Server.Port)>>
    ELSE Nil

---------------------------------------------------------------------------
(* Specifications *)

vars == <<hashOf, ring, ring2, service, mock, last, opCount, served, expect, writer,
         http, pool, conns, calls, config>>

\* The digests.  Lookup key p hashes to position p, so the lookup keys reach
\* every position; the replicas of the names in `names' hash anywhere, the
\* other replicas to position 0.  The ring treats the replicas of one node
\* alike (AddNode inserts them all before it sorts, RemoveNode deletes them
\* all), so a digest is taken non-decreasing in the replica index.
HashFunctions(names) ==
    {[s \in VirtualKeys(AllNames) \cup Keys |->
        IF s \in Keys THEN (CHOOSE p \in Positions : KeyOf(p) = s)
        ELSE IF s \in VirtualKeys(names) THEN f[s] ELSE 0] :
     f \in {g \in [VirtualKeys(names) -> Positions] :
               \A n \in names : \A i \in 1 .. (virtualNodes - 1) :
                   g[VirtualKey(n, i - 1)] <= g[VirtualKey(n, i)]}}

\* The record of a call: op with its arguments (key and value; nodes and
\* clients of the configuration; order of the probes and the unhealthy
\* clients), what it returned (result, err), the client it was dispatched to
\* and the error that client was made to return (to, fault).
NoCall == [op |-> "none", key |-> "", value |-> "", result |-> "", err |-> Nil,
           to |-> "", fault |-> Nil, nodes |-> <<>>, clients |-> {},
           order |-> <<>>, unhealthy |-> {}]

\* No membership call is in progress.
Idle == [op |-> "none", node |-> "", i |-> 0]

\* No request was served yet.
NoRequest ==
    [handler |-> "none", req |-> [method |-> "", path |-> <<>>, body |-> ""],
     resp |-> NoResponse]

InitOther ==
    /\ writer = Idle
    /\ http = NoRequest
    /\ pool = NilPool
    /\ conns = NoConns
    /\ calls = NoCalls
    /\ config = Default
    /\ service = NilService
    /\ mock = [c \in ServiceNames |-> newMockCacheRepository]
    /\ last = NoCall
    /\ opCount = 0
    /\ served = [k \in ServiceKeys |-> {}]
    /\ expect = [k \in ServiceKeys |-> <<>>]

(* The ring on its own: two rings under one digest *)

InitRing ==
    /\ hashOf \in HashFunctions(NodeNames)
    /\ ring = NewConsistentHashRing
    /\ ring2 = NewConsistentHashRing
    /\ InitOther

RingAddNode(node) ==
    /\ ring' = AddNode(ring, node)
    /\ UNCHANGED <<hashOf, config, writer, http, pool, conns, calls, ring2, service, mock, last, opCount, served, expect>>

RingRemoveNode(node) ==
    /\ ring' = RemoveNode(ring, node)
    /\ UNCHANGED <<hashOf, config, writer, http, pool, conns, calls, ring2, service, mock, last, opCount, served, expect>>

Ring2AddNode(node) ==
    /\ ring2' = AddNode(ring2, node)
    /\ UNCHANGED <<hashOf, config, writer, http, pool, conns, calls, ring, service, mock, last, opCount, served, expect>>

NextRing ==
    \/ \E node \in NodeNames : RingAddNode(node)
    \/ \E node \in NodeNames : RingRemoveNode(node)

SpecRing == InitRing /\ [][NextRing]_vars

\* Two rings populated by AddNode alone, each in an order of its own.
NextOrder ==
    \/ \E node \in NodeNames : RingAddNode(node)
    \/ \E node \in NodeNames : Ring2AddNode(node)

SpecOrder == InitRing /\ [][NextOrder]_vars

\* A ring that nodes join and leave, and a second ring that nodes only join.
NextSorted ==
    \/ \E node \in NodeNames : RingAddNode(node)
    \/ \E node \in NodeNames : RingRemoveNode(node)
    \/ \E node \in NodeNames : Ring2AddNode(node)

SpecSorted == InitRing /\ [][NextSorted]_vars

(* One ring and its membership calls: ring2 holds the ring as it was before *)
(* the last call, last the call                                            *)

\* The digests of the membership calls: the replicas of node1 and node2 hash
\* anywhere, replica i of node3 to position i + 1.
RingHashFunctions ==
    {[s \in DOMAIN h |->
        IF s \in VirtualKeys({"node3"})
        THEN ((CHOOSE i \in 0 .. (virtualNodes - 1) : VirtualKey("node3", i) = s) + 1)
                 % HashSpace
        ELSE h[s]] :
     h \in HashFunctions({"node1", "node2"})}

InitMembership ==
    /\ hashOf \in RingHashFunctions
    /\ ring = NewConsistentHashRing
    /\ ring2 = NewConsistentHashRing
    /\ InitOther

AddNodeCall(node) ==
    /\ ring' = AddNode(ring, node)
    /\ ring2' = ring
    /\ last' = [NoCall EXCEPT !.op = "AddNode", !.to = node]
    /\ UNCHANGED <<hashOf, config, writer, http, pool, conns, calls, service, mock, opCount, served, expect>>

RemoveNodeCall(node) ==
    /\ ring' = RemoveNode(ring, node)
    /\ ring2' = ring
    /\ last' = [NoCall EXCEPT !.op = "RemoveNode", !.to = node]
    /\ UNCHANGED <<hashOf, config, writer, http, pool, conns, calls, service, mock, opCount, served, expect>>

NextMembership ==
    \/ \E node \in NodeNames : AddNodeCall(node)
    \/ \E node \in NodeNames : RemoveNodeCall(node)

SpecMembership == InitMembership /\ [][NextMembership]_vars

\* The digest gives every node a position that no replica of another node
\* hashes to.  (With 150 replicas per node and SHA-256, a node without one
\* would need every one of its 150 positions to collide with another node.)
KeepsOwnPosition(h) ==
    \A n \in NodeNames : \E i \in 0 .. (virtualNodes - 1) :
        \A m \in NodeNames \ {n} : \A j \in 0 .. (virtualNodes - 1) :
            h[VirtualKey(m, j)] # h[VirtualKey(n, i)]

InitOwnPositions ==
    /\ hashOf \in {h \in RingHashFunctions : KeepsOwnPosition(h)}
    /\ ring = NewConsistentHashRing
    /\ ring2 = NewConsistentHashRing
    /\ InitOther

SpecOwnPositions == InitOwnPositions /\ [][NextMembership]_vars

(* A goroutine calling AddNode and RemoveNode on the ring while another     *)
(* calls GetNode.  The ring has no lock: the membership calls are taken    *)
(* statement by statement, and a lookup runs between any two statements.   *)
(* ring2 holds the ring as it was when the call in progress began.         *)

\* The digests: the replicas of node1 and node2 hash anywhere, and no
\* position is shared by the two nodes.
RaceHashFunctions ==
    {h \in HashFunctions({"node1", "node2"}) :
        \A i, j \in 0 .. (virtualNodes - 1) :
            h[VirtualKey("node1", i)] # h[VirtualKey("node2", j)]}

InitRace ==
    /\ hashOf \in RaceHashFunctions
    /\ ring = NewConsistentHashRing
    /\ ring2 = NewConsistentHashRing
    /\ InitOther

\* AddNode up to its loop: the check of nodeSet and nodeSet[node] = true.
BeginAddNode(node) ==
    /\ writer = Idle
    /\ node \notin ring.nodeSet
    /\ ring' = [ring EXCEPT !.nodeSet = @ \cup {node}]
    /\ ring2' = ring
    /\ writer' = [op |-> "AddNode", node |-> node, i |-> 0]
    /\ last' = NoCall
    /\ UNCHANGED <<hashOf, config, http, pool, conns, calls, service, mock, opCount, served, expect>>

\* One round of AddNode's loop: nodes[hash] = node and the append.
AddNodeStep ==
    /\ writer.op = "AddNode"
    /\ writer.i < virtualNodes
    /\ LET hash == hashKey(VirtualKey(writer.node, writer.i))
       IN  ring' = [ring EXCEPT !.nodes = MapPut(@, hash, writer.node),
                                !.sortedHashes = Append(@, hash)]
    /\ writer' = [writer EXCEPT !.i = @ + 1]
    /\ last' = NoCall
    /\ UNCHANGED <<hashOf, config, http, pool, conns, calls, ring2, service, mock, opCount, served, expect>>

\* The sort.Slice that ends AddNode.
AddNodeSort ==
    /\ writer.op = "AddNode"
    /\ writer.i = virtualNodes
    /\ ring' = [ring EXCEPT !.sortedHashes = SortHashes(@)]
    /\ ring2' = ring'
    /\ writer' = Idle
    /\ last' = NoCall
    /\ UNCHANGED <<hashOf, config, http, pool, conns, calls, service, mock, opCount, served, expect>>

\* RemoveNode up to its loop: the check of nodeSet and delete(nodeSet, node).
BeginRemoveNode(node) ==
    /\ writer = Idle
    /\ node \in ring.nodeSet
    /\ ring' = [ring EXCEPT !.nodeSet = @ \ {node}]
    /\ ring2' = ring
    /\ writer' = [op |-> "RemoveNode", node |-> node, i |-> 0]
    /\ last' = NoCall
    /\ UNCHANGED <<hashOf, config, http, pool, conns, calls, service, mock, opCount, served, expect>>

\* One round of RemoveNode's loop: delete(nodes, hash).
RemoveNodeStep ==
    /\ writer.op = "RemoveNode"
    /\ writer.i < virtualNodes
    /\ ring' = [ring EXCEPT
                   !.nodes = MapDelete(@, hashKey(VirtualKey(writer.node, writer.i)))]
    /\ writer' = [writer EXCEPT !.i = @ + 1]
    /\ last' = NoCall
    /\ UNCHANGED <<hashOf, config, http, pool, conns, calls, ring2, service, mock, opCount, served, expect>>

\* The rebuildSortedHashes that ends RemoveNode.
RemoveNodeRebuild ==
    /\ writer.op = "RemoveNode"
    /\ writer.i = virtualNodes
    /\ ring' = rebuildSortedHashes(ring)
    /\ ring2' = ring'
    /\ writer' = Idle
    /\ last' = NoCall
    /\ UNCHANGED <<hashOf, config, http, pool, conns, calls, service, mock, opCount, served, expect>>

\* What the Go runtime prints when it detects a map read during a map write.
FatalConcurrentMap == <<"fatal error: concurrent map read and map write">>

\* GetNode(key) called by the other goroutine.  It reads the ring as the
\* call in progress has left it; during such a call the read of the table
\* races with its writes, and the runtime may stop the program instead.
Lookup(key) ==
    /\ \/ last' = [NoCall EXCEPT !.op = "GetNode", !.key = key,
                                 !.result = GetNode(ring, key)]
       \/ /\ writer # Idle
          /\ last' = [NoCall EXCEPT !.op = "GetNode", !.key = key,
                                    !.err = FatalConcurrentMap]
    /\ UNCHANGED <<hashOf, config, writer, http, pool, conns, calls, ring, ring2, service, mock, opCount, served, expect>>

NextRace ==
    \/ \E node \in {"node1", "node2"} : BeginAddNode(node)
    \/ AddNodeStep
    \/ AddNodeSort
    \/ \E node \in {"node1", "node2"} : BeginRemoveNode(node)
    \/ RemoveNodeStep
    \/ RemoveNodeRebuild
    \/ \E key \in Keys : Lookup(key)

SpecRace == InitRace /\ [][NextRace]_vars

(* The membership calls with the empty string among the node names *)

\* The digests: the replicas of "" and of node1 hash anywhere, and no
\* position is shared by the two names.
AnyNameHashFunctions ==
    {h \in HashFunctions({"", "node1"}) :
        \A i, j \in 0 .. (virtualNodes - 1) :
            h[VirtualKey("", i)] # h[VirtualKey("node1", j)]}

InitAnyName ==
    /\ hashOf \in AnyNameHashFunctions
    /\ ring = NewConsistentHashRing
    /\ ring2 = NewConsistentHashRing
    /\ InitOther

NextAnyName ==
    \/ \E node \in {"", "node1"} : AddNodeCall(node)
    \/ \E node \in {"", "node1"} : RemoveNodeCall(node)

SpecAnyName == InitAnyName /\ [][NextAnyName]_vars

---------------------------------------------------------------------------
(* The routing service with its backends *)

\* The node lists and registries NewService is called with.
NodeLists == UNION {[1 .. n -> ServiceNames] : n \in 0 .. MaxNodes}

Range(f) == {f[i] : i \in DOMAIN f}

\* The orders in which a range loop may visit the set S.
Orders(S) == {o \in [1 .. Cardinality(S) -> S] : Range(o) = S}

\* The record of a call and of what Get, Set or Delete returned for it.
Called(op, key, value, fault, r) ==
    [NoCall EXCEPT !.op = op, !.key = key, !.value = value,
                   !.result = r.value, !.err = r.err, !.to = r.to,
                   !.fault = IF r.to = "" THEN Nil ELSE fault]

\* served after a call for key was dispatched to client `to' ("" if none).
Serve(key, to) ==
    IF to = "" THEN served ELSE [served EXCEPT ![key] = @ \cup {to}]

\* The digests the service runs under: the replicas of node1 hash anywhere,
\* replica i of node2 to position i + 1, so that the two nodes interleave,
\* collide or follow each other on the ring.
ServiceHashFunctions ==
    {[s \in DOMAIN h |->
        IF s \in VirtualKeys({"node2"})
        THEN ((CHOOSE i \in 0 .. (virtualNodes - 1) : VirtualKey("node2", i) = s) + 1)
                 % HashSpace
        ELSE h[s]] :
     h \in HashFunctions({"node1"})}

InitService ==
    /\ hashOf \in ServiceHashFunctions
    /\ ring = NewConsistentHashRing
    /\ ring2 = NewConsistentHashRing
    /\ InitOther

DoNewService(cfg) ==
    /\ service.isNil
    /\ opCount < MaxOps
    /\ LET r == NewService(cfg)
       IN  /\ service' = r.service
           /\ last' = [NoCall EXCEPT !.op = "NewService", !.err = r.err,
                                     !.nodes = cfg.Nodes, !.clients = cfg.Clients]
    /\ opCount' = opCount + 1
    /\ UNCHANGED <<hashOf, config, writer, http, pool, conns, calls, ring, ring2, mock, served, expect>>

DoGet(key, getErr) ==
    /\ ~service.isNil
    /\ opCount < MaxOps
    /\ LET r == ServiceGet(service, mock, key, getErr)
       IN  /\ mock' = r.mock
           /\ last' = Called("Get", key, "", getErr, r)
           /\ served' = Serve(key, r.to)
    /\ opCount' = opCount + 1
    /\ UNCHANGED <<hashOf, config, writer, http, pool, conns, calls, ring, ring2, service, expect>>

DoSet(key, value, setErr) ==
    /\ ~service.isNil
    /\ opCount < MaxOps
    /\ LET r == ServiceSet(service, mock, key, value, setErr)
       IN  /\ mock' = r.mock
           /\ last' = Called("Set", key, value, setErr, r)
           /\ served' = Serve(key, r.to)
           /\ expect' = IF r.err = Nil
                        THEN [expect EXCEPT ![key] = <<value>>]
                        ELSE expect
    /\ opCount' = opCount + 1
    /\ UNCHANGED <<hashOf, config, writer, http, pool, conns, calls, ring, ring2, service>>

\* Delete that drops the binding of a client whose call failed.
DoDeleteUnbinding(key, deleteErr) ==
    /\ ~service.isNil
    /\ opCount < MaxOps
    /\ LET r == ServiceDelete(service, mock, key, deleteErr)
       IN  /\ mock' = r.mock
           /\ last' = Called("Delete", key, "", deleteErr, r)
           /\ served' = Serve(key, r.to)
           /\ expect' = IF r.err = Nil
                        THEN [expect EXCEPT ![key] = <<>>]
                        ELSE expect
           /\ service' = IF r.to # "" /\ r.err # Nil
                         THEN [service EXCEPT !.clients = @ \ {r.to}]
                         ELSE service
    /\ opCount' = opCount + 1
    /\ UNCHANGED <<hashOf, config, writer, http, pool, conns, calls, ring, ring2>>

DoDelete(key, deleteErr) ==
    /\ ~service.isNil
    /\ opCount < MaxOps
    /\ LET r == ServiceDelete(service, mock, key, deleteErr)
       IN  /\ mock' = r.mock
           /\ last' = Called("Delete", key, "", deleteErr, r)
           /\ served' = Serve(key, r.to)
           /\ expect' = IF r.err = Nil
                        THEN [expect EXCEPT ![key] = <<>>]
                        ELSE expect
    /\ opCount' = opCount + 1
    /\ UNCHANGED <<hashOf, config, writer, http, pool, conns, calls, ring, ring2, service>>

\* unhealthy: the clients whose probe fails, each with its own error.
DoHealthCheck(order, unhealthy) ==
    /\ ~service.isNil
    /\ opCount < MaxOps
    /\ LET healthErr == [c \in ServiceNames |->
                            IF c \in unhealthy THEN HealthError(c) ELSE Nil]
           r == ServiceHealthCheck(service, mock, order, healthErr)
       IN  /\ mock' = r.mock
           /\ last' = [NoCall EXCEPT !.op = "HealthCheck", !.err = r.err,
                                     !.order = order, !.unhealthy = unhealthy]
    /\ opCount' = opCount + 1
    /\ UNCHANGED <<hashOf, config, writer, http, pool, conns, calls, ring, ring2, service, served, expect>>

DoGetNodes(order) ==
    /\ ~service.isNil
    /\ opCount < MaxOps
    /\ last' = [NoCall EXCEPT !.op = "GetNodes", !.order = order,
                              !.nodes = ServiceGetNodes(service, order)]
    /\ opCount' = opCount + 1
    /\ UNCHANGED <<hashOf, config, writer, http, pool, conns, calls, ring, ring2, service, mock, served, expect>>

\* The ring of a running service changes membership (the ring supports
\* AddNode/RemoveNode; the registry of the service stays as constructed).
DoRemoveNode(node) ==
    /\ ~service.isNil
    /\ node \in service.hashRing.nodeSet
    /\ service' = [service EXCEPT !.hashRing = RemoveNode(@, node)]
    /\ last' = [NoCall EXCEPT !.op = "RemoveNode", !.key = node]
    /\ served' = [k \in ServiceKeys |-> {}]
    /\ UNCHANGED <<hashOf, config, writer, http, pool, conns, calls, ring, ring2, mock, opCount, expect>>

\* Construction, then Get, Set and Delete with empty and non-empty arguments
\* against backends that succeed or fail, and membership changes.
Next ==
    \/ \E nodeList \in NodeLists : \E registry \in SUBSET ServiceNames :
           DoNewService([Nodes |-> nodeList, Clients |-> registry])
    \/ \E key \in ServiceKeys \cup {""} : \E getErr \in {Nil} \cup BackendErrors :
           DoGet(key, getErr)
    \/ \E key \in ServiceKeys \cup {""} : \E value \in {"v1", ""} :
       \E setErr \in {Nil, <<"context deadline exceeded">>} :
           DoSet(key, value, setErr)
    \/ \E key \in ServiceKeys \cup {""} : \E deleteErr \in {Nil, <<"client error">>} :
           DoDelete(key, deleteErr)
    \/ \E node \in ServiceNames : DoRemoveNode(node)

Spec == InitService /\ [][Next]_vars

\* Reliable backends under a fixed membership: the service is constructed
\* with a client for every node of its ring, no backend call fails, and keys
\* and values are not empty.
InitKV ==
    /\ hashOf \in ServiceHashFunctions
    /\ ring = NewConsistentHashRing
    /\ ring2 = NewConsistentHashRing
    /\ writer = Idle
    /\ http = NoRequest
    /\ pool = NilPool
    /\ conns = NoConns
    /\ calls = NoCalls
    /\ config = Default
    /\ \E nodeList \in NodeLists : \E registry \in SUBSET ServiceNames :
           /\ Len(nodeList) > 0
           /\ Range(nodeList) \subseteq registry
           /\ service = NewService([Nodes |-> nodeList, Clients |-> registry]).service
    /\ mock = [c \in ServiceNames |-> newMockCacheRepository]
    /\ last = NoCall
    /\ opCount = 0
    /\ served = [k \in ServiceKeys |-> {}]
    /\ expect = [k \in ServiceKeys |-> <<>>]

NextKV ==
    \/ \E key \in ServiceKeys : DoGet(key, Nil)
    \/ \E key \in ServiceKeys : \E value \in Values : DoSet(key, value, Nil)
    \/ \E key \in ServiceKeys : DoDelete(key, Nil)

SpecKV == InitKV /\ [][NextKV]_vars

\* Construction, health probes and membership changes.
NextHealth ==
    \/ \E nodeList \in NodeLists : \E registry \in SUBSET ServiceNames :
           DoNewService([Nodes |-> nodeList, Clients |-> registry])
    \/ \E order \in Orders(service.clients) : \E unhealthy \in SUBSET ServiceNames :
           DoHealthCheck(order, unhealthy)
    \/ \E node \in ServiceNames : DoRemoveNode(node)

SpecHealth == InitService /\ [][NextHealth]_vars

(* The service configured with the empty string among its node names *)

InitEmptyName ==
    /\ hashOf \in AnyNameHashFunctions
    /\ ring = NewConsistentHashRing
    /\ ring2 = NewConsistentHashRing
    /\ InitOther

\* Construction over the names "" and node1, then Get, Set and Delete with
\* valid arguments against backends that succeed, and removals from the ring.
NextEmptyName ==
    \/ \E n \in 1 .. MaxNodes : \E nodeList \in [1 .. n -> {"", "node1"}] :
           \E registry \in SUBSET {"", "node1"} :
               DoNewService([Nodes |-> nodeList, Clients |-> registry])
    \/ \E key \in ServiceKeys : DoGet(key, Nil)
    \/ \E key \in ServiceKeys : DoSet(key, "v1", Nil)
    \/ \E key \in ServiceKeys : DoDelete(key, Nil)
    \/ \E node \in {"", "node1"} : DoRemoveNode(node)

SpecEmptyName == InitEmptyName /\ [][NextEmptyName]_vars

(* Every operation of the service *)

\* Construction, then Get, Set, Delete, HealthCheck and GetNodes.
NextOps ==
    \/ \E nodeList \in NodeLists : \E registry \in SUBSET ServiceNames :
           DoNewService([Nodes |-> nodeList, Clients |-> registry])
    \/ \E key \in ServiceKeys \cup {""} : DoGet(key, Nil)
    \/ \E key \in ServiceKeys : \E value \in {"v1", ""} : DoSet(key, value, Nil)
    \/ \E key \in ServiceKeys : \E deleteErr \in {Nil, <<"client error">>} :
           DoDelete(key, deleteErr)
    \/ \E order \in Orders(service.clients) : \E unhealthy \in SUBSET ServiceNames :
           DoHealthCheck(order, unhealthy)
    \/ \E order \in Orders(service.clients) : DoGetNodes(order)

SpecOps == InitService /\ [][NextOps]_vars

(* The ring and its listing of the known nodes *)

NodesCall(order) ==
    /\ last' = [NoCall EXCEPT !.op = "Nodes", !.order = order,
                              !.nodes = Nodes(ring, order)]
    /\ UNCHANGED <<hashOf, config, writer, http, pool, conns, calls, ring, ring2, service, mock, opCount, served, expect>>

InitNodes ==
    /\ hashOf \in HashFunctions({"node10"})
    /\ ring = NewConsistentHashRing
    /\ ring2 = NewConsistentHashRing
    /\ InitOther

NextNodes ==
    \/ \E node \in SortNames : AddNodeCall(node)
    \/ \E node \in SortNames : RemoveNodeCall(node)
    \/ \E order \in Orders(ring.nodeSet) : NodesCall(order)

SpecNodes == InitNodes /\ [][NextNodes]_vars

(* The HTTP handlers over the routing service *)

\* The paths of the requests: /cache/<key>, /cache/, /cache, /other/<key>
\* and /cache//<key>.
Paths ==
    {<<"/", "cache", "/", key>> : key \in ServiceKeys}
        \cup {<<"/", "cache", "/">>, <<"/", "cache">>,
              <<"/", "other", "/", KeyOf(0)>>,
              <<"/", "cache", "/", "/", KeyOf(0)>>}

\* The service behind the handlers: node1 and node2 on the ring, a client
\* for node1 and possibly one for node2, a store that may hold the first key.
InitHTTP ==
    /\ hashOf \in ServiceHashFunctions
    /\ ring = NewConsistentHashRing
    /\ ring2 = NewConsistentHashRing
    /\ writer = Idle
    /\ http = NoRequest
    /\ pool = NilPool
    /\ conns = NoConns
    /\ calls = NoCalls
    /\ config = Default
    /\ \E registry \in {{"node1"}, {"node1", "node2"}} :
           service = NewService([Nodes |-> <<"node1", "node2">>,
                                 Clients |-> registry]).service
    /\ \E stored \in SUBSET ServiceNames :
           mock = [c \in ServiceNames |->
                      IF c \in stored
                      THEN [newMockCacheRepository EXCEPT
                               !.data = MapPut(<<>>, KeyOf(0), "v1")]
                      ELSE newMockCacheRepository]
    /\ last = NoCall
    /\ opCount = 0
    /\ served = [k \in ServiceKeys |-> {}]
    /\ expect = [k \in ServiceKeys |-> <<>>]

\* A handler serves one request: the response, the call on the service
\* (for a health check, over the registry in `order' with the clients of
\* `unhealthy' failing their probe with `fault').
Serves(handler, req, fault, out, order, unhealthy) ==
    /\ http.handler = "none"
    /\ http' = [handler |-> handler, req |-> req, resp |-> out.resp]
    /\ mock' = out.r.mock
    /\ last' = IF out.op = "none" THEN NoCall
               ELSE [Called(out.op, out.key, out.value, fault, out.r)
                        EXCEPT !.order = order, !.unhealthy = unhealthy,
                               !.fault = IF out.op = "HealthCheck" THEN fault ELSE @]
    /\ UNCHANGED <<hashOf, config, pool, conns, calls, writer, ring, ring2, service, opCount, served, expect>>

\* The errors a backend is made to return to a call.
HTTPFaults ==
    {Nil, ErrInvalidKey, <<"client error">>,
     Wrap("redis get failed", ErrKeyNotFound)}

NextHTTP ==
    \/ \E method \in {"GET", "PUT"} : \E path \in Paths : \E getErr \in HTTPFaults :
           LET req == [method |-> method, path |-> path, body |-> ""]
           IN  Serves("GetCache", req, getErr, GetCache(service, mock, req, getErr),
                      <<>>, {})
    \/ \E method \in {"PUT", "GET"} : \E path \in Paths :
       \E body \in {"{\"value\":\"v1\"}", "{\"value\":\"\"}", "{}", "", "v1"} :
       \E setErr \in {Nil, ErrInvalidValue} :
           LET req == [method |-> method, path |-> path, body |-> body]
           IN  Serves("SetCache", req, setErr, SetCache(service, mock, req, setErr),
                      <<>>, {})
    \/ \E method \in {"DELETE", "GET"} : \E path \in Paths :
       \E deleteErr \in {Nil, <<"client error">>} :
           LET req == [method |-> method, path |-> path, body |-> ""]
           IN  Serves("DeleteCache", req, deleteErr,
                      DeleteCache(service, mock, req, deleteErr), <<>>, {})
    \/ \E method \in {"GET", "POST"} : \E order \in Orders(service.clients) :
       \E unhealthy \in SUBSET ServiceNames :
       \E probeErr \in {ErrCacheUnavailable, <<"client error">>} :
           LET req == [method |-> method, path |-> <<"/", "health">>, body |-> ""]
               healthErr == [c \in ServiceNames |->
                                IF c \in unhealthy THEN probeErr ELSE Nil]
           IN  Serves("HealthCheck", req, probeErr,
                      HandlersHealthCheck(service, mock, req, order, healthErr),
                      order, unhealthy)
    \/ \E node \in ServiceNames : DoRemoveNode(node)

SpecHTTP == InitHTTP /\ [][NextHTTP]_vars

(* The redis pool: calls of goroutines, GetClient statement by statement *)

InitPool ==
    /\ hashOf \in HashFunctions({})
    /\ ring = NewConsistentHashRing
    /\ ring2 = NewConsistentHashRing
    /\ InitOther

\* Goroutine g is in no call.
Returned(g) == calls[g].pc \in {"idle", "done"}

\* No goroutine other than g is in a call: the pool has one caller at a time.
Alone(g) == \A h \in Goroutines \ {g} : Returned(h)

\* NewPool precedes every use of the pool.
NewPoolCall(g, urls, failAt) ==
    /\ pool.isNil
    /\ \A h \in Goroutines : calls[h].op \in {"none", "NewPool"}
    /\ \A i \in ClientIds : ~conns[i].created
    /\ LET r == NewPool(urls, failAt, conns)
       IN  /\ pool' = r.pool
           /\ conns' = r.conns
           /\ calls' = [calls EXCEPT ![g] =
                            [NoPoolCall EXCEPT !.op = "NewPool", !.pc = "done",
                                               !.err = r.err, !.size = urls,
                                               !.failing = {failAt} \cap (1 .. urls)]]
    /\ UNCHANGED <<hashOf, config, writer, http, ring, ring2, service, mock, last,
                   opCount, served, expect>>

\* GetClient up to line 76: RLock, the checks of closed and of the length,
\* and client := p.clients[p.current].  k counts the calls that passed the
\* checks before this one.
GetClientBegin(g) ==
    /\ ~pool.isNil
    /\ Returned(g)
    /\ IF pool.closed
       THEN /\ calls' = [calls EXCEPT ![g] =
                            [NoPoolCall EXCEPT !.op = "GetClient", !.pc = "done",
                                               !.err = <<"pool is closed">>]]
            /\ UNCHANGED <<pool, opCount>>
       ELSE IF Len(pool.clients) = 0
       THEN /\ calls' = [calls EXCEPT ![g] =
                            [NoPoolCall EXCEPT !.op = "GetClient", !.pc = "done",
                                               !.err = <<"no clients available">>]]
            /\ UNCHANGED <<pool, opCount>>
       ELSE /\ opCount < MaxOps
            /\ pool' = [pool EXCEPT !.readers = @ + 1]
            /\ calls' = [calls EXCEPT ![g] =
                            [NoPoolCall EXCEPT !.op = "GetClient", !.pc = "advance",
                                               !.k = opCount, !.idx = pool.current,
                                               !.client = pool.clients[pool.current + 1]]]
            /\ opCount' = opCount + 1
    /\ UNCHANGED <<hashOf, config, writer, http, ring, ring2, service, mock, last,
                   conns, served, expect>>

\* Line 77, right-hand side: (p.current + 1) % len(p.clients), with
\* p.current read again or taken from the read of line 76.
GetClientAdvance(g, reload) ==
    /\ calls[g].pc = "advance"
    /\ calls' = [calls EXCEPT ![g].pc = "store",
                              ![g].next = ((IF reload THEN pool.current
                                            ELSE calls[g].idx) + 1)
                                          % Len(pool.clients)]
    /\ UNCHANGED <<hashOf, config, writer, http, ring, ring2, service, mock, last,
                   opCount, pool, conns, served, expect>>

\* GetClient that returns without moving the cursor.
GetClientKeepCursor(g) ==
    /\ calls[g].pc = "store"
    /\ pool' = [pool EXCEPT !.readers = @ - 1]
    /\ calls' = [calls EXCEPT ![g].pc = "done"]
    /\ UNCHANGED <<hashOf, config, writer, http, ring, ring2, service, mock, last,
                   opCount, conns, served, expect>>

\* Line 77, the assignment to p.current; RUnlock and return.
GetClientStore(g) ==
    /\ calls[g].pc = "store"
    /\ pool' = [pool EXCEPT !.current = calls[g].next, !.readers = @ - 1]
    /\ calls' = [calls EXCEPT ![g].pc = "done"]
    /\ UNCHANGED <<hashOf, config, writer, http, ring, ring2, service, mock, last,
                   opCount, conns, served, expect>>

\* Pool.HealthCheck under the read lock, the clients of `unhealthy' failing
\* their ping.
PoolHealthCheckCall(g, unhealthy) ==
    /\ ~pool.isNil
    /\ Returned(g)
    /\ LET r == PoolHealthCheck(pool, unhealthy)
       IN  calls' = [calls EXCEPT ![g] =
                        [NoPoolCall EXCEPT !.op = "HealthCheck", !.pc = "done",
                                           !.err = r.err, !.probed = r.probed,
                                           !.failing = unhealthy]]
    /\ UNCHANGED <<hashOf, config, writer, http, ring, ring2, service, mock, last,
                   opCount, pool, conns, served, expect>>

\* Pool.Close that does not wait for the read locks.
PoolCloseCallUnlocked(g, failing) ==
    /\ ~pool.isNil
    /\ Returned(g)
    /\ LET r == PoolClose(pool, conns, failing)
       IN  /\ pool' = r.pool
           /\ conns' = r.conns
           /\ calls' = [calls EXCEPT ![g] =
                            [NoPoolCall EXCEPT !.op = "Close", !.pc = "done",
                                               !.err = r.err, !.failing = failing]]
    /\ UNCHANGED <<hashOf, config, writer, http, ring, ring2, service, mock, last,
                   opCount, served, expect>>

\* Pool.Close: Lock waits until no read lock is held.
PoolCloseCall(g, failing) ==
    /\ ~pool.isNil
    /\ Returned(g)
    /\ pool.readers = 0
    /\ LET r == PoolClose(pool, conns, failing)
       IN  /\ pool' = r.pool
           /\ conns' = r.conns
           /\ calls' = [calls EXCEPT ![g] =
                            [NoPoolCall EXCEPT !.op = "Close", !.pc = "done",
                                               !.err = r.err, !.failing = failing]]
    /\ UNCHANGED <<hashOf, config, writer, http, ring, ring2, service, mock, last,
                   opCount, served, expect>>

PoolSizeCall(g) ==
    /\ ~pool.isNil
    /\ Returned(g)
    /\ calls' = [calls EXCEPT ![g] =
                    [NoPoolCall EXCEPT !.op = "Size", !.pc = "done",
                                       !.size = PoolSize(pool)]]
    /\ UNCHANGED <<hashOf, config, writer, http, ring, ring2, service, mock, last,
                   opCount, pool, conns, served, expect>>

\* The pool used by one caller at a time.
NextPool ==
    \/ \E g \in Goroutines : \E urls \in 0 .. MaxURLs : \E failAt \in 0 .. MaxURLs :
           NewPoolCall(g, urls, failAt)
    \/ \E g \in Goroutines : Alone(g) /\ GetClientBegin(g)
    \/ \E g \in Goroutines : \E reload \in BOOLEAN : GetClientAdvance(g, reload)
    \/ \E g \in Goroutines : GetClientStore(g)
    \/ \E g \in Goroutines : \E unhealthy \in SUBSET ClientIds :
           Alone(g) /\ PoolHealthCheckCall(g, unhealthy)
    \/ \E g \in Goroutines : \E failing \in SUBSET ClientIds :
           Alone(g) /\ PoolCloseCall(g, failing)
    \/ \E g \in Goroutines : Alone(g) /\ PoolSizeCall(g)

SpecPool == InitPool /\ [][NextPool]_vars

\* The pool shared by goroutines that call it concurrently.
NextPoolRace ==
    \/ \E g \in Goroutines : \E urls \in 1 .. MaxURLs : NewPoolCall(g, urls, 0)
    \/ \E g \in Goroutines : GetClientBegin(g)
    \/ \E g \in Goroutines : \E reload \in BOOLEAN : GetClientAdvance(g, reload)
    \/ \E g \in Goroutines : GetClientStore(g)
    \/ \E g \in Goroutines : \E unhealthy \in SUBSET ClientIds :
           PoolHealthCheckCall(g, unhealthy)
    \/ \E g \in Goroutines : \E failing \in SUBSET ClientIds :
           PoolCloseCall(g, failing)
    \/ \E g \in Goroutines : PoolSizeCall(g)

SpecPoolRace == InitPool /\ [][NextPoolRace]_vars

(* One redis client and its server *)

\* NewClient connects the first client.
NewClientCall ==
    /\ ~conns[1].created
    /\ conns' = [conns EXCEPT ![1].created = TRUE]
    /\ UNCHANGED <<hashOf, config, writer, http, ring, ring2, service, mock, last,
                   opCount, pool, calls, served, expect>>

\* A call of Get, Set or Delete on the first client gave r.
ClientCall(op, key, value, fault, r) ==
    /\ conns[1].created
    /\ opCount < MaxOps
    /\ conns' = [conns EXCEPT ![1] = r.conn]
    /\ calls' = [calls EXCEPT !["g1"] =
                    [NoPoolCall EXCEPT !.op = op, !.pc = "done", !.key = key,
                                       !.value = value, !.fault = fault,
                                       !.result = r.value, !.err = r.err]]
    /\ opCount' = opCount + 1
    /\ UNCHANGED <<hashOf, config, writer, http, ring, ring2, service, mock, last,
                   pool, served, expect>>

\* The failures of a command: none, or the connection is refused.
CommandFaults == {Nil, <<"connection refused">>}

NextClient ==
    \/ NewClientCall
    \/ \E key \in ServiceKeys \cup {""} : \E fault \in CommandFaults :
           ClientCall("Get", key, "", fault, ClientGet(conns[1], key, fault))
    \/ \E key \in ServiceKeys \cup {""} : \E value \in Values \cup {""} :
       \E fault \in CommandFaults :
           ClientCall("Set", key, value, fault,
                      ClientSet(conns[1], key, value, fault))
    \/ \E key \in ServiceKeys \cup {""} : \E fault \in CommandFaults :
           ClientCall("Delete", key, "", fault, ClientDelete(conns[1], key, fault))

SpecClient == InitPool /\ [][NextClient]_vars

(* The configuration: its fields are set by the caller, then validated *)

\* The caller sets the fields that Validate reads.
Configure(urls, poolSize, port) ==
    /\ config' = [config EXCEPT !.Redis.URLs = urls, !.Redis.PoolSize = poolSize,
                                !.Server.Port = port]
    /\ UNCHANGED <<hashOf, writer, http, ring, ring2, service, mock, last,
                   opCount, pool, conns, calls, served, expect>>

ValidateCall ==
    /\ calls' = [calls EXCEPT !["g1"] =
                    [NoPoolCall EXCEPT !.op = "Validate", !.pc = "done",
                                       !.err = Validate(config)]]
    /\ UNCHANGED <<hashOf, config, writer, http, ring, ring2, service, mock, last,
                   opCount, pool, conns, served, expect>>

NextConfig ==
    \/ \E urls \in {<<>>, <<"redis://localhost:6379">>} :
       \E poolSize \in {-1, 0, 1, 10} :
       \E port \in {-1, 0, 1, 8080, 65535, 65536} :
           Configure(urls, poolSize, port)
    \/ ValidateCall

SpecConfig == InitPool /\ [][NextConfig]_vars

---------------------------------------------------------------------------
(* Properties *)

\* A step that is one call of op on the service.
IsCall(ops) == opCount' = opCount + 1 /\ last'.op \in ops

\* The number of backend calls a client has received.
TotalCalls(m) == m.getCalls + m.setCalls + m.deleteCalls + m.healthCalls

\* C1: with a fixed membership, a client for every ring node and backends
\* that never fail, Get(k) returns the value of the most recent Set(k) not
\* followed by a Delete(k), and fails with KeyNotFound when k was never set
\* or was deleted since its last Set.
C1_GetReturnsLastSet ==
    last.op = "Get" =>
        IF expect[last.key] = <<>>
        THEN last.err = ErrKeyNotFound /\ last.result = ""
        ELSE last.err = Nil /\ last.result = expect[last.key][1]

\* Get of a key that was set, set again to another value, or deleted, has
\* answered: the key is held by a backend that was written twice, or the key
\* is absent from a backend that received both a Set and a Delete.
C1_Witness ==
    /\ last.op = "Get"
    /\ last.to # ""
    /\ \/ last.err = Nil /\ mock[last.to].setCalls = 2
       \/ /\ last.err = ErrKeyNotFound
          /\ mock[last.to].setCalls = 1
          /\ mock[last.to].deleteCalls = 1
          /\ mock[last.to].data = <<>>

\* C2: a Get/Set/Delete that passes validation and routing invokes exactly
\* one backend method, once, on the client bound to GetNode(key), and nothing
\* on any other client; while the membership is unchanged, all calls for one
\* key reach the same client.
C2_SingleDispatch ==
    [][IsCall({"Get", "Set", "Delete"}) =>
        LET key == last'.key
            node == GetNode(service.hashRing, key)
        IN  /\ (/\ key # ""
                /\ (last'.op = "Set" => last'.value # "")
                /\ node # ""
                /\ node \in service.clients)
               => /\ last'.to = node
                  /\ \A c \in ServiceNames \ {node} : mock'[c] = mock[c]
                  /\ TotalCalls(mock'[node]) = TotalCalls(mock[node]) + 1
                  /\ last'.op = "Get" => mock'[node].getCalls = mock[node].getCalls + 1
                  /\ last'.op = "Set" => mock'[node].setCalls = mock[node].setCalls + 1
                  /\ last'.op = "Delete" =>
                         mock'[node].deleteCalls = mock[node].deleteCalls + 1
            /\ \A k \in ServiceKeys : Cardinality(served'[k]) <= 1]_vars

\* A Get was dispatched to the client that already holds the key from an
\* earlier Set, in a service with two clients.
C2_Witness ==
    /\ last.op = "Get"
    /\ last.to # ""
    /\ last.key \in DOMAIN mock[last.to].data
    /\ served[last.key] = {last.to}
    /\ Cardinality(service.clients) = 2
    /\ TotalCalls(mock[last.to]) = 2

\* C3: Get, Set and Delete return the first failure that applies, in the
\* order InvalidKey, InvalidValue (Set only), NoNodesAvailable,
\* ClientNotFound, and only then the backend's result; in the first four
\* outcomes no backend method of any client has been called.
C3_FailureOrder ==
    [][IsCall({"Get", "Set", "Delete"}) =>
        LET key == last'.key
            node == GetNode(service.hashRing, key)
        IN  IF key = ""
            THEN last'.err = ErrInvalidKey /\ mock' = mock
            ELSE IF last'.op = "Set" /\ last'.value = ""
            THEN last'.err = ErrInvalidValue /\ mock' = mock
            ELSE IF node = ""
            THEN last'.err = ErrNoNodesAvailable /\ mock' = mock
            ELSE IF node \notin service.clients
            THEN last'.err = ErrClientNotFound /\ mock' = mock
            ELSE /\ last'.to = node
                 /\ mock' # mock
                 /\ last'.fault # Nil => last'.err = last'.fault]_vars

\* A Delete of a non-empty key found the ring empty while the registry still
\* holds clients, and answered NoNodesAvailable.
C3_Witness ==
    /\ last.op = "Delete"
    /\ last.key # ""
    /\ service.hashRing.nodeSet = {}
    /\ service.clients # {}
    /\ last.err = ErrNoNodesAvailable

\* C4: Set with an empty key fails with InvalidKey whatever the value, the
\* ring and the registry; Set with a non-empty key and an empty value fails
\* with InvalidValue; in both cases no client's set-call count changes.
C4_SetValidation ==
    [][IsCall({"Set"}) =>
        /\ last'.key = ""
           => /\ last'.err = ErrInvalidKey
              /\ \A c \in ServiceNames : mock'[c].setCalls = mock[c].setCalls
        /\ (last'.key # "" /\ last'.value = "")
           => /\ last'.err = ErrInvalidValue
              /\ \A c \in ServiceNames : mock'[c].setCalls = mock[c].setCalls]_vars

\* Set with an empty key and an empty value was answered with InvalidKey.
C4_Witness ==
    /\ last.op = "Set"
    /\ last.key = ""
    /\ last.value = ""
    /\ last.err = ErrInvalidKey

\* C5: when the backend call of Get/Set/Delete returns an error, the service
\* returns that same error, not ClientNotFound, NoNodesAvailable or success,
\* and makes no second backend call.
C5_BackendErrorPropagated ==
    [][IsCall({"Get", "Set", "Delete"}) /\ last'.to # "" =>
        LET node == last'.to
            backendErr ==
                IF last'.fault # Nil THEN last'.fault
                ELSE IF last'.op = "Get" /\ last'.key \notin DOMAIN mock[node].data
                THEN ErrKeyNotFound
                ELSE Nil
        IN  backendErr # Nil
            => /\ last'.err = backendErr
               /\ last'.err \notin {ErrClientNotFound, ErrNoNodesAvailable, Nil}
               /\ TotalCalls(mock'[node]) = TotalCalls(mock[node]) + 1
               /\ \A c \in ServiceNames \ {node} : mock'[c] = mock[c]
               /\ mock'[node].data = mock[node].data]_vars

\* A Set was dispatched, its backend failed with the deadline error, and the
\* service returned that error.
C5_Witness ==
    /\ last.op = "Set"
    /\ last.to # ""
    /\ last.fault = <<"context deadline exceeded">>
    /\ last.err = <<"context deadline exceeded">>

\* C6: HealthCheck over N >= 1 clients returns no error iff at least one
\* client's probe succeeds; when all fail it returns an error wrapping the
\* error of the last client probed.
C6_HealthAggregation ==
    last.op = "HealthCheck" =>
        /\ (last.err = Nil) <=> (\E c \in service.clients : c \notin last.unhealthy)
        /\ service.clients \subseteq last.unhealthy
           => last.err = Wrap("all clients unhealthy",
                              HealthError(last.order[Len(last.order)]))

\* HealthCheck succeeded over two clients of which the first probed failed.
C6_Witness ==
    /\ last.op = "HealthCheck"
    /\ Cardinality(service.clients) = 2
    /\ last.order[1] \in last.unhealthy
    /\ last.order[2] \notin last.unhealthy
    /\ last.err = Nil

\* C7: one HealthCheck invokes HealthCheck exactly once on every client of
\* the registry, whatever the earlier probes gave and whether or not the
\* client's name is in the ring.
C7_EveryClientProbedOnce ==
    [][IsCall({"HealthCheck"}) =>
        \A c \in ServiceNames :
            mock'[c] = IF c \in service.clients
                       THEN [mock[c] EXCEPT !.healthCalls = @ + 1]
                       ELSE mock[c]]_vars

\* HealthCheck ran over two clients, the first probed unhealthy and one of
\* them bound to a name the ring does not know; both were probed once.
C7_Witness ==
    /\ last.op = "HealthCheck"
    /\ Cardinality(service.clients) = 2
    /\ last.order[1] \in last.unhealthy
    /\ \E c \in service.clients : c \notin service.hashRing.nodeSet
    /\ \A c \in service.clients : mock[c].healthCalls = 1

\* C8: NewService fails with InvalidConfiguration and no service iff the
\* node list or the registry is empty; on success the ring's node set is the
\* set of distinct names of the node list.
C8_Construction ==
    last.op = "NewService" =>
        /\ (last.err = ErrInvalidConfiguration /\ service.isNil)
           <=> (Len(last.nodes) = 0 \/ last.clients = {})
        /\ last.err # ErrInvalidConfiguration
           => /\ last.err = Nil
              /\ ~service.isNil
              /\ service.hashRing.nodeSet = Range(last.nodes)
              /\ service.clients = last.clients

\* NewService succeeded on a node list that names one node twice.
C8_Witness ==
    /\ last.op = "NewService"
    /\ last.err = Nil
    /\ Len(last.nodes) = 2
    /\ last.nodes[1] = last.nodes[2]
    /\ Cardinality(service.hashRing.nodeSet) = 1

\* C9: after every sequence of AddNode/RemoveNode calls, for every digest,
\* the position table and the sorted position sequence both hold
\* virtualNodes entries per known node.
C9_RingSize ==
    /\ Len(ring.sortedHashes) = virtualNodes * Cardinality(ring.nodeSet)
    /\ Cardinality(DOMAIN ring.nodes) = virtualNodes * Cardinality(ring.nodeSet)

\* C10: two rings populated by AddNode with the same nodes, in any two
\* orders, agree on GetNode for every key, for every digest.
C10_OrderIndependent ==
    ring.nodeSet = ring2.nodeSet =>
        \A key \in Keys : GetNode(ring, key) = GetNode(ring2, key)

---------------------------------------------------------------------------
\* C11: AddNode of a node the ring already knows and RemoveNode of a node
\* the ring does not know leave the whole ring as it was: node set, table
\* of positions and sorted sequence of positions.
C11_KnownAddUnknownRemove ==
    /\ (last.op = "AddNode" /\ last.to \in ring2.nodeSet) => ring = ring2
    /\ (last.op = "RemoveNode" /\ last.to \notin ring2.nodeSet) => ring = ring2

\* AddNode of a known node was called on a ring of two nodes.
C11_Witness ==
    /\ last.op = "AddNode"
    /\ last.to \in ring2.nodeSet
    /\ Cardinality(ring2.nodeSet) = 2
    /\ Len(ring2.sortedHashes) = 2 * virtualNodes

---------------------------------------------------------------------------
---------------------------------------------------------------------------
\* C13: a membership change remaps as few keys as it can: RemoveNode(X)
\* changes the node GetNode returns only for keys that X owned before the
\* call, and AddNode(Y) of a node the ring did not know changes it only for
\* keys that Y owns after the call.
C13_MinimalRemap ==
    /\ last.op = "RemoveNode" =>
           \A key \in Keys :
               GetNode(ring, key) # GetNode(ring2, key) =>
                   GetNode(ring2, key) = last.to
    /\ (last.op = "AddNode" /\ last.to \notin ring2.nodeSet) =>
           \A key \in Keys :
               GetNode(ring, key) # GetNode(ring2, key) =>
                   GetNode(ring, key) = last.to

---------------------------------------------------------------------------
\* C14: on a ring that holds positions, GetNode(key) returns the owner of
\* the smallest position that is at least hash(key), and the owner of the
\* smallest position of all when hash(key) exceeds every position.
C14_Successor ==
    LET positions == DOMAIN ring.nodes
        Least(S) == CHOOSE x \in S : \A y \in S : x <= y
    IN  positions # {} =>
            \A key \in Keys :
                LET atOrAfter == {q \in positions : q >= hashKey(key)}
                    at == IF atOrAfter # {} THEN Least(atOrAfter)
                          ELSE Least(positions)
                IN  GetNode(ring, key) = ring.nodes[at]

\* Two nodes own positions, one key hashes past every position and wraps to
\* the first, another hashes exactly onto a position.
C14_Witness ==
    LET positions == DOMAIN ring.nodes
    IN  /\ Cardinality({ring.nodes[q] : q \in positions}) >= 2
        /\ \E key \in Keys : \A q \in positions : q < hashKey(key)
        /\ \E key \in Keys : hashKey(key) \in positions
        /\ \E key \in Keys :
               /\ hashKey(key) \notin positions
               /\ \E q \in positions : q > hashKey(key)

---------------------------------------------------------------------------
\* C15: in every ring state AddNode and RemoveNode lead to, GetNode(key)
\* returns "" exactly when the ring knows no node: a ring with a known node
\* never answers a lookup with "".
C15_EmptyIffNoNode ==
    \A key \in Keys : (GetNode(ring, key) = "") <=> (ring.nodeSet = {})

---------------------------------------------------------------------------
\* C16: AddNode and RemoveNode exclude GetNode while they run: a lookup
\* never starts during a membership call, it returns what the ring before
\* or after the call returns for the key and never what a partly updated
\* ring returns, and it does not return "" when a node is in the ring
\* before and after the call.
C16_LookupsExcluded ==
    last.op = "GetNode" =>
        LET after == IF writer.op = "AddNode" THEN AddNode(ring2, writer.node)
                     ELSE IF writer.op = "RemoveNode"
                          THEN RemoveNode(ring2, writer.node)
                          ELSE ring2
        IN  /\ last.err = Nil
            /\ last.result \in {GetNode(ring2, last.key), GetNode(after, last.key)}
            /\ ring2.nodeSet \cap after.nodeSet # {} => last.result # ""

---------------------------------------------------------------------------
\* C17: Get, Set and Delete with a non-empty key (and value) fail with
\* NoNodesAvailable exactly when the ring knows no node, whatever the names
\* of the nodes NewService was given: never while the ring holds a node.
C17_NoNodesIffEmptyRing ==
    (/\ last.op \in {"Get", "Set", "Delete"}
     /\ last.key # ""
     /\ last.op = "Set" => last.value # "") =>
        ((last.err = ErrNoNodesAvailable) <=> (service.hashRing.nodeSet = {}))

---------------------------------------------------------------------------
\* C18: NewService succeeds when its node list and its registry are both
\* non-empty, also when they differ; afterwards a Get, Set or Delete with
\* valid arguments whose key the ring assigns to a node without a client
\* fails with ClientNotFound and reaches no client, and one whose key the
\* ring assigns to a node with a client is dispatched to that client.
C18_UnboundNode ==
    /\ (last.op = "NewService" /\ last.nodes # <<>> /\ last.clients # {}) =>
           (last.err = Nil /\ ~service.isNil)
    /\ (/\ last.op \in {"Get", "Set", "Delete"}
        /\ last.key # ""
        /\ last.op = "Set" => last.value # ""
        /\ Len(service.hashRing.sortedHashes) # 0) =>
           LET owner == GetNode(service.hashRing, last.key)
           IN  IF owner \in service.clients
               THEN last.to = owner
               ELSE last.err = ErrClientNotFound /\ last.to = ""

---------------------------------------------------------------------------
\* C19: GetNodes returns exactly the names of the client registry, each
\* once, in whatever order; names that only the ring knows are not in it.
C19_GetNodesIsRegistry ==
    last.op = "GetNodes" =>
        /\ Range(last.nodes) = service.clients
        /\ Len(last.nodes) = Cardinality(service.clients)

\* GetNodes was called on a service whose ring knows a node without a
\* client and whose registry holds a name the ring does not know.
C19_Witness ==
    /\ last.op = "GetNodes"
    /\ service.hashRing.nodeSet \ service.clients # {}
    /\ service.clients \ service.hashRing.nodeSet # {}

---------------------------------------------------------------------------
\* C20: no call of Get, Set, Delete, HealthCheck or GetNodes changes the
\* ring of the service or its registry: both stay as NewService made them.
C20_ServiceUnchanged ==
    [][IsCall({"Get", "Set", "Delete", "HealthCheck", "GetNodes"}) =>
           /\ service'.hashRing = service.hashRing
           /\ service'.clients = service.clients]_vars

\* A Delete that a client failed closes a run of calls on the service.
C20_Witness ==
    /\ opCount = MaxOps
    /\ last.op = "Delete"
    /\ last.to # ""
    /\ last.err # Nil

---------------------------------------------------------------------------
\* C21: Nodes() returns the names the ring knows, each once, in ascending
\* byte order, after any sequence of AddNode and RemoveNode calls; for a
\* ring that knows no node it returns the empty list.
C21_NodesSorted ==
    last.op = "Nodes" =>
        /\ Range(last.nodes) = ring.nodeSet
        /\ Len(last.nodes) = Cardinality(ring.nodeSet)
        /\ \A i, j \in 1 .. Len(last.nodes) :
               i < j => BytesLess(Bytes(last.nodes[i]), Bytes(last.nodes[j]))

\* Nodes() listed three nodes that the map yielded in another order, on a
\* ring that node2 was added to before node10.
C21_Witness ==
    /\ last.op = "Nodes"
    /\ ring.nodeSet = SortNames
    /\ last.order # last.nodes
    /\ last.nodes = <<"node1", "node10", "node2">>


\* C22: when the service returns an error to a cache handler, the response
\* has status 404 for KeyNotFound, 400 for InvalidKey and InvalidValue, 503
\* for NoNodesAvailable and ClientNotFound, and 500 for every other error;
\* the 500 response has the fixed error text "internal server error" and
\* carries nothing of the underlying error.
C22_ErrorStatus ==
    LET StatusOf(err) ==
            CASE err = ErrKeyNotFound -> 404
              [] err \in {ErrInvalidKey, ErrInvalidValue} -> 400
              [] err \in {ErrNoNodesAvailable, ErrClientNotFound} -> 503
              [] OTHER -> 500
    IN
    (http.handler \in {"GetCache", "SetCache", "DeleteCache"}
        /\ last.op \in {"Get", "Set", "Delete"} /\ last.err # Nil)
    => /\ http.resp.status = StatusOf(last.err)
       /\ http.resp.status = 500
            => /\ http.resp.error = "internal server error"
               /\ http.resp.message = ""

\* A backend failed a Get with an error that is none of the domain errors,
\* and the handler answered 500.
C22_Witness ==
    /\ http.handler = "GetCache"
    /\ last.op = "Get"
    /\ last.err = <<"client error">>
    /\ http.resp.status = 500

---------------------------------------------------------------------------
\* C23: a cache handler rejects a bad request before it calls the service,
\* checking in this order: a method other than its own gives 405; a path
\* with no key after /cache/ gives 400 "invalid key"; for PUT, a body that
\* does not decode gives 400, and an empty value gives 400 "invalid value".
\* On each rejection no call is made on the service and no backend changes.
C23_RejectedBeforeService ==
    [][LET req == http'.req
           resp == http'.resp
           MethodOf(handler) ==
               CASE handler = "GetCache" -> "GET"
                 [] handler = "SetCache" -> "PUT"
                 [] handler = "DeleteCache" -> "DELETE"
           KeyOfPath(path) ==
               IF Len(path) = 4 /\ SubSeq(path, 1, 3) = <<"/", "cache", "/">>
               THEN path[4] ELSE ""
           Untouched == last'.op = "none" /\ mock' = mock
       IN  (http.handler = "none"
               /\ http'.handler \in {"GetCache", "SetCache", "DeleteCache"})
           => IF req.method # MethodOf(http'.handler)
              THEN resp.status = 405 /\ Untouched
              ELSE IF KeyOfPath(req.path) = ""
              THEN resp.status = 400 /\ resp.error = "invalid key" /\ Untouched
              ELSE IF http'.handler = "SetCache" /\ req.body \in {"", "v1"}
              THEN resp.status = 400 /\ resp.error = "invalid request body"
                      /\ Untouched
              ELSE IF http'.handler = "SetCache"
                         /\ req.body \in {"{}", "{\"value\":\"\"}"}
              THEN resp.status = 400 /\ resp.error = "invalid value" /\ Untouched
              ELSE last'.op # "none"]_vars

\* A PUT with a key and a value that decodes to "" was answered 400
\* "invalid value" with no call on the service, over a backend that holds
\* data.
C23_Witness ==
    /\ http.handler = "SetCache"
    /\ http.req.method = "PUT"
    /\ extractKey(http.req.path) # ""
    /\ http.resp.status = 400
    /\ http.resp.error = "invalid value"
    /\ last.op = "none"
    /\ \E c \in ServiceNames : mock[c].data # <<>>

---------------------------------------------------------------------------
\* C24: a GET on the health endpoint answers 200 "healthy" exactly when
\* HealthCheck of the service returns no error, and 503 "unhealthy"
\* otherwise; over the routing service that is 200 whenever at least one
\* backend of the registry is healthy, and 503 only when all are unhealthy.
C24_HealthEndpoint ==
    (http.handler = "HealthCheck" /\ http.req.method = "GET"
        /\ last.op = "HealthCheck")
    => LET healthy == service.clients \ last.unhealthy
       IN  /\ last.err = Nil
                => http.resp.status = 200 /\ http.resp.health = "healthy"
           /\ last.err # Nil
                => http.resp.status = 503 /\ http.resp.health = "unhealthy"
           /\ healthy # {} => http.resp.status = 200
           /\ http.resp.status = 503 => healthy = {}

\* The endpoint answered 200 over a registry of two backends of which one
\* is unhealthy.
C24_Witness ==
    /\ http.handler = "HealthCheck"
    /\ last.op = "HealthCheck"
    /\ service.clients = {"node1", "node2"}
    /\ Cardinality(service.clients \cap last.unhealthy) = 1
    /\ http.resp.status = 200
    /\ http.resp.health = "healthy"

---------------------------------------------------------------------------
\* C25: once Pool.Close has returned the pool stays closed: every later
\* GetClient and HealthCheck returns an error and hands out no client, Size
\* is 0, and a later Close returns nil and closes no client again.
C25_StaysClosed ==
    [][pool.closed =>
          /\ pool'.closed
          /\ PoolSize(pool') = 0
          /\ conns' = conns
          /\ \A g \in Goroutines :
                calls'[g] # calls[g] =>
                    /\ calls'[g].client = 0
                    /\ calls'[g].op \in {"GetClient", "HealthCheck"}
                          => calls'[g].err # Nil /\ calls'[g].probed = <<>>
                    /\ calls'[g].op = "Close" => calls'[g].err = Nil
                    /\ calls'[g].op = "Size" => calls'[g].size = 0]_vars

\* On a pool of MaxURLs clients that one goroutine closed, with a client
\* failing its Close, a GetClient of the other goroutine returned an error
\* and each client has been closed once.
C25_Witness ==
    /\ pool.closed
    /\ calls["g1"].op = "Close"
    /\ calls["g1"].err # Nil
    /\ calls["g2"].op = "GetClient"
    /\ calls["g2"].err = <<"pool is closed">>
    /\ \A i \in ClientIds : conns[i].closeCalls = 1

---------------------------------------------------------------------------
\* C26: on an open pool of n clients used by one caller at a time, the k-th
\* GetClient call (from 0) returns client number k mod n, in creation order,
\* and after the calls the cursor stands at their number mod n.
C26_RoundRobin ==
    LET n == Cardinality({i \in ClientIds : conns[i].created})
    IN  /\ \A g \in Goroutines :
              (calls[g].op = "GetClient" /\ calls[g].err = Nil)
                  => calls[g].client = (calls[g].k % n) + 1
        /\ (~pool.isNil /\ ~pool.closed /\ \A g \in Goroutines : Returned(g))
              => pool.current = opCount % n

\* The third GetClient on a pool of two clients returned the first client
\* again.
C26_Witness ==
    /\ Len(pool.clients) = 2
    /\ \E g \in Goroutines :
          /\ calls[g].op = "GetClient"
          /\ calls[g].pc = "done"
          /\ calls[g].k = 2
          /\ calls[g].client = 1

---------------------------------------------------------------------------
\* C27: GetClient reads and advances the cursor atomically with respect to
\* other GetClient calls: however m concurrent calls on an open pool of n
\* clients interleave, the cursor has advanced by m mod n when they have
\* returned, and calls that follow each other in taking the lock receive
\* clients that follow each other in the rotation; no update is lost.
C27_AtomicCursor ==
    (~pool.isNil /\ ~pool.closed) =>
        LET n == Len(pool.clients)
            got == {g \in Goroutines :
                       calls[g].op = "GetClient" /\ calls[g].err = Nil}
        IN  /\ (\A g \in Goroutines : Returned(g)) => pool.current = opCount % n
            /\ \A g, h \in got :
                  calls[h].k = calls[g].k + 1
                      => calls[h].client = (calls[g].client % n) + 1

---------------------------------------------------------------------------
\* C28: the redis client validates its arguments before any round trip:
\* Get, Set and Delete with an empty key return InvalidKey, Set with an empty
\* value returns InvalidValue, in both cases no command is sent and the data
\* of the server is unchanged; Get of a key the server does not hold returns
\* KeyNotFound.
C28_ValidatedBeforeRoundTrip ==
    [][LET c == calls'["g1"]
       IN  (opCount' # opCount /\ c.op \in {"Get", "Set", "Delete"})
           => /\ c.key = "" => c.err = ErrInvalidKey /\ conns' = conns
              /\ (c.op = "Set" /\ c.key # "" /\ c.value = "")
                    => c.err = ErrInvalidValue /\ conns' = conns
              /\ (c.op = "Get" /\ c.key # "" /\ c.fault = Nil
                      /\ c.key \notin DOMAIN conns[1].data)
                    => c.err = ErrKeyNotFound]_vars

\* A Set of an empty value under a key was rejected by a client whose
\* server holds data.
C28_Witness ==
    /\ calls["g1"].op = "Set"
    /\ calls["g1"].key # ""
    /\ calls["g1"].value = ""
    /\ calls["g1"].err = ErrInvalidValue
    /\ conns[1].data # <<>>
    /\ conns[1].commands = 1

---------------------------------------------------------------------------
\* C30: after every AddNode and RemoveNode call the sorted sequence of
\* positions is in ascending order, and two rings that hold the same node
\* set hold the same sequence, in whatever order their nodes were added.
C30_SortedDeterministic ==
    LET Ascending(s) == \A i \in 1 .. (Len(s) - 1) : s[i] <= s[i + 1]
    IN  /\ Ascending(ring.sortedHashes)
        /\ Ascending(ring2.sortedHashes)
        /\ ring.nodeSet = ring2.nodeSet => ring.sortedHashes = ring2.sortedHashes

---------------------------------------------------------------------------
\* C31: in every ring state reached by AddNode and RemoveNode calls the
\* sorted sequence holds exactly the positions of the table, each once;
\* every owner the table records is a known node; and every known node owns
\* at least one position.
C31_RingConsistent ==
    LET listed == {ring.sortedHashes[i] : i \in 1 .. Len(ring.sortedHashes)}
    IN  /\ listed = DOMAIN ring.nodes
        /\ Len(ring.sortedHashes) = Cardinality(listed)
        /\ \A p \in DOMAIN ring.nodes : ring.nodes[p] \in ring.nodeSet
        /\ \A node \in ring.nodeSet :
              \E p \in DOMAIN ring.nodes : ring.nodes[p] = node

---------------------------------------------------------------------------
\* C32: RemoveNode(X) followed by AddNode(X), on a ring that knows X, is a
\* round trip: GetNode returns for every key the node it returned before
\* the removal, and the ring has the same node set and the same number of
\* positions as before the removal.
C32_RemoveAddRoundTrip ==
    [][(last.op = "RemoveNode" /\ last.to \in ring2.nodeSet
           /\ last'.op = "AddNode" /\ last'.to = last.to)
       => /\ \A key \in Keys : GetNode(ring', key) = GetNode(ring2, key)
          /\ ring'.nodeSet = ring2.nodeSet
          /\ Len(ring'.sortedHashes) = Len(ring2.sortedHashes)
          /\ Cardinality(DOMAIN ring'.nodes) = Cardinality(DOMAIN ring2.nodes)]_vars

---------------------------------------------------------------------------
\* C33: the HTTP adapter classifies an error of the service by the domain
\* error it carries: an error that wraps KeyNotFound, InvalidKey,
\* InvalidValue, NoNodesAvailable or ClientNotFound (errors.Is reports it)
\* gets the status of the bare domain error, not 500.
C33_WrappedErrorStatus ==
    LET Is(err, target) ==
            /\ Len(err) >= Len(target)
            /\ SubSeq(err, Len(err) - Len(target) + 1, Len(err)) = target
        err == last.err
    IN  (http.handler \in {"GetCache", "SetCache", "DeleteCache"}
            /\ last.op \in {"Get", "Set", "Delete"} /\ err # Nil)
        => /\ Is(err, ErrKeyNotFound) => http.resp.status = 404
           /\ (Is(err, ErrInvalidKey) \/ Is(err, ErrInvalidValue))
                 => http.resp.status = 400
           /\ (Is(err, ErrNoNodesAvailable) \/ Is(err, ErrClientNotFound))
                 => http.resp.status = 503

---------------------------------------------------------------------------
\* C34: Delete of a key that the owning backend does not hold succeeds when
\* the backend reports no error: a Delete that follows a successful Delete
\* of the same key finds the key gone and returns no error as well, and a
\* Delete leaves the value stored under every other key as it was.
C34_DeleteIdempotent ==
    [][(opCount' # opCount /\ last'.op = "Delete" /\ last'.to # ""
           /\ last'.fault = Nil)
       => /\ last'.err = Nil
          /\ (last.op = "Delete" /\ last.key = last'.key /\ last.err = Nil)
                => last'.key \notin DOMAIN mock[last'.to].data
          /\ \A c \in ServiceNames : \A key \in ServiceKeys \ {last'.key} :
                /\ (key \in DOMAIN mock'[c].data) = (key \in DOMAIN mock[c].data)
                /\ key \in DOMAIN mock[c].data
                      => mock'[c].data[key] = mock[c].data[key]]_vars

\* The owner of a key was asked twice to delete it and no other call was
\* made on it; the last Delete succeeded, and another key is still stored.
C34_Witness ==
    /\ last.op = "Delete"
    /\ last.err = Nil
    /\ mock[last.to].deleteCalls = 2
    /\ mock[last.to].setCalls = 0
    /\ served[last.key] = {last.to}
    /\ \E c \in ServiceNames \ {last.to} : mock[c].data # <<>>

---------------------------------------------------------------------------
\* C35: when every client of the registry fails its probe with
\* CacheUnavailable, the error Service.HealthCheck returns still identifies
\* as CacheUnavailable (errors.Is holds through the wrapping), and the
\* health endpoint answers 503.
C35_UnavailableThroughWrapping ==
    (http.handler = "HealthCheck" /\ last.op = "HealthCheck"
        /\ service.clients \subseteq last.unhealthy
        /\ last.fault = ErrCacheUnavailable)
    => /\ last.err # Nil
       /\ last.err # ErrCacheUnavailable
       /\ \E i \in 1 .. Len(last.err) :
             SubSeq(last.err, i, Len(last.err)) = ErrCacheUnavailable
       /\ http.resp.status = 503

\* Both clients of a registry of two failed their probe with
\* CacheUnavailable and the endpoint answered 503 "unhealthy".
C35_Witness ==
    /\ http.handler = "HealthCheck"
    /\ last.op = "HealthCheck"
    /\ service.clients = {"node1", "node2"}
    /\ last.unhealthy = service.clients
    /\ last.fault = ErrCacheUnavailable
    /\ last.err = <<"all clients unhealthy", "cache unavailable">>
    /\ http.resp.status = 503
    /\ http.resp.health = "unhealthy"

---------------------------------------------------------------------------
\* C36: Pool.HealthCheck on an open pool returns no error if and only if
\* every client of the pool is healthy; it probes the clients in index
\* order, returns the error of the first unhealthy client and probes no
\* client after it.
C36_PoolHealthCheck ==
    \A g \in Goroutines :
        (calls[g].op = "HealthCheck" /\ calls[g].err # <<"pool is closed">>)
        => LET n == Cardinality({i \in ClientIds : conns[i].created})
               bad == calls[g].failing \cap (1 .. n)
               first == CHOOSE i \in bad : \A j \in bad : i <= j
           IN  /\ (calls[g].err = Nil) <=> (bad = {})
               /\ bad = {} => calls[g].probed = [i \in 1 .. n |-> i]
               /\ bad # {} => /\ calls[g].err = ErrCacheUnavailable
                              /\ calls[g].probed = [i \in 1 .. first |-> i]

\* On a pool of two clients of which the first is unhealthy, HealthCheck
\* returned its error and did not probe the second.
C36_Witness ==
    /\ ~pool.isNil /\ ~pool.closed
    /\ Len(pool.clients) = 2
    /\ \E g \in Goroutines :
          /\ calls[g].op = "HealthCheck"
          /\ calls[g].failing = {1}
          /\ calls[g].err = ErrCacheUnavailable
          /\ calls[g].probed = <<1>>

---------------------------------------------------------------------------
\* C37: NewPool returns either a pool that holds one connected client per
\* URL, in URL order, with Size equal to the number of URLs, or an error and
\* no pool; it fails on an empty URL list; and when the client for a URL
\* cannot be created, each client created for the URLs before it has been
\* closed exactly once when the error is returned, so none stays open.
C37_NewPoolAllOrNothing ==
    [][\A g \in Goroutines :
          (calls'[g] # calls[g] /\ calls'[g].op = "NewPool")
          => LET urls == calls'[g].size
                 made == {i \in ClientIds : conns'[i].created}
             IN  /\ (calls'[g].err = Nil) <=> ~pool'.isNil
                 /\ urls = 0 => calls'[g].err # Nil
                 /\ calls'[g].err = Nil
                       => /\ pool'.clients = [i \in 1 .. urls |-> i]
                          /\ PoolSize(pool') = urls
                          /\ made = 1 .. urls
                          /\ \A i \in made : conns'[i].closeCalls = 0
                 /\ calls'[g].err # Nil
                       => /\ \A f \in calls'[g].failing : made = 1 .. (f - 1)
                          /\ \A i \in made : conns'[i].closeCalls = 1]_vars

\* NewPool failed on the last of MaxURLs URLs and closed the clients it had
\* created for the others.
C37_Witness ==
    /\ pool.isNil
    /\ \E g \in Goroutines :
          /\ calls[g].op = "NewPool"
          /\ calls[g].size = MaxURLs
          /\ calls[g].failing = {MaxURLs}
          /\ calls[g].err # Nil
    /\ \A i \in 1 .. (MaxURLs - 1) : conns[i].created /\ conns[i].closeCalls = 1
    /\ ~conns[MaxURLs].created

---------------------------------------------------------------------------
\* C38: the first Pool.Close calls Close on every client of the pool exactly
\* once, also when some of these calls fail; it marks the pool closed and
\* drops its clients in every case; and it returns an error if and only if
\* at least one client failed to close.
C38_CloseEveryClient ==
    [][(~pool.isNil /\ ~pool.closed /\ pool'.closed)
       => LET held == {pool.clients[i] : i \in 1 .. Len(pool.clients)}
          IN  /\ \A i \in held :
                    conns[i].closeCalls = 0 /\ conns'[i].closeCalls = 1
              /\ \A i \in ClientIds \ held : conns'[i] = conns[i]
              /\ pool'.clients = <<>>
              /\ \E g \in Goroutines :
                    /\ calls'[g] # calls[g]
                    /\ calls'[g].op = "Close"
                    /\ (calls'[g].err # Nil)
                          <=> (calls'[g].failing \cap held # {})]_vars

\* Close of a pool of MaxURLs clients whose first client failed to close
\* returned an error, and every client has been closed once.
C38_Witness ==
    /\ pool.closed
    /\ \E g \in Goroutines :
          /\ calls[g].op = "Close"
          /\ calls[g].failing = {1}
          /\ calls[g].err # Nil
    /\ \A i \in ClientIds : conns[i].created /\ conns[i].closeCalls = 1

---------------------------------------------------------------------------
\* C39: however concurrent GetClient, HealthCheck, Size and Close calls
\* interleave, the cursor is within [0, number of clients) while the pool
\* is open, GetClient indexes inside the client list, and the client a
\* GetClient takes is one that Close has not closed while GetClient holds
\* the lock.
C39_CursorInRange ==
    LET reading == {g \in Goroutines : calls[g].pc \in {"advance", "store"}}
    IN  /\ (~pool.isNil /\ ~pool.closed)
              => pool.current \in 0 .. (Len(pool.clients) - 1)
        /\ pool.readers = Cardinality(reading)
        /\ \A g \in reading :
              /\ ~pool.closed
              /\ calls[g].idx \in 0 .. (Len(pool.clients) - 1)
              /\ calls[g].client = pool.clients[calls[g].idx + 1]
              /\ conns[calls[g].client].closeCalls = 0
              /\ calls[g].pc = "store"
                    => calls[g].next \in 0 .. (Len(pool.clients) - 1)

\* Two GetClient calls hold the read lock together on a pool of two clients
\* whose cursor an earlier call has advanced, while the pool is open.
C39_Witness ==
    /\ ~pool.isNil /\ ~pool.closed
    /\ Len(pool.clients) = 2
    /\ pool.readers = 2
    /\ pool.current = 1
    /\ \A g \in Goroutines : calls[g].pc = "store"

---------------------------------------------------------------------------
\* C40: Config.Validate returns an error if and only if the Redis URL list
\* is empty, the pool size is not positive, or the server port is outside
\* 1..65535; it checks in this order and reports the first violation; the
\* default configuration validates without error.
C40_Validate ==
    [][calls'["g1"].op = "Validate" /\ config' = config
       => LET err == calls'["g1"].err
              noURL == config.Redis.URLs = <<>>
              badSize == config.Redis.PoolSize < 1
              badPort == config.Server.Port \notin 1 .. 65535
          IN  /\ (err # Nil) <=> (noURL \/ badSize \/ badPort)
              /\ noURL => err = <<"redis URLs cannot be empty">>
              /\ (~noURL /\ badSize) => err = <<"redis pool size must be positive">>
              /\ (~noURL /\ ~badSize /\ badPort)
                    => err = <<"invalid server port: "
                                   \o ToString(config.Server.Port)>>
              /\ config = Default => err = Nil]_vars

\* A configuration with a URL, a pool size of 0 and port 65536 was
\* validated: the pool size is reported, not the port.
C40_Witness ==
    /\ calls["g1"].op = "Validate"
    /\ config.Redis.URLs # <<>>
    /\ config.Redis.PoolSize = 0
    /\ config.Server.Port = 65536
    /\ calls["g1"].err = <<"redis pool size must be positive">>

====
